---- MODULE Spec2Model ----
(***************************************************************************)
(* A model of the LumaScript compiler (xraisen/lumascript): the lexer, the *)
(* WASM generator with its LEB128 primitives, and the WASM decoder.        *)
(*                                                                         *)
(* Python values are modelled as follows.  A bytes object is a sequence of *)
(* naturals in 0..255.  A call that can raise returns a record             *)
(* [err |-> <exception name or "none">, v |-> <value>].                    *)
(***************************************************************************)
EXTENDS Integers, Sequences, FiniteSets, TLC

VARIABLES
    \* --- LEB128 primitives applied to one input ---
    leb_value,      \* the integer handed to the encoder
    leb_op,         \* "none" | "unsigned" | "signed": which encoder ran
    leb_bytes,      \* the bytes the encoder returned
    leb_decoded,    \* what _decode_leb128 returned for leb_bytes
    \* --- one WASMGenerator instance ---
    functions,          \* self.functions
    function_types,     \* self.function_types: signature -> type index
    local_vars,         \* self.local_vars: name -> local index
    next_local_index,   \* self.next_local_index
    locals_count,       \* locals_count of the latest generate_function_body
    gen_call,           \* the method called last on the instance ("none": new)
    gen_arg,            \* its argument (generate_expression: the node)
    gen_result,         \* what the call returned or raised
    gen_sections,       \* generate's section payloads (its local variables)
    gen_fi,             \* generate_code_section's position in self.functions
    \* --- one Lexer instance and the tokenize call running on it ---
    source,             \* self.source
    pos,                \* self.pos
    line,               \* self.line
    column,             \* self.column
    current_char,       \* self.current_char
    tokens,             \* tokenize's list of tokens
    lex_status,         \* "new" | "running" | "returned" | "raised"
    lex_error,          \* the exception tokenize raised
    \* --- one call of a generated function on a WebAssembly machine ---
    x_func,             \* the Function whose emitted code runs
    x_arg,              \* the argument of the call
    x_code,             \* the instructions generate_function_body emitted
    x_pc,               \* position of the next instruction in x_code (1-based)
    x_stack,            \* operand stack
    x_locals,           \* local variables: parameters, then declared locals
    x_labels,           \* control stack of the enclosing block/loop labels
    x_status,           \* "idle" | "running" | "returned" | "trapped"
    x_result,           \* the value the call returned
    x_last,             \* the branch decision of the latest instruction
    \* --- Parser (parser.py): one parse() call ---
    p_tokens,           \* self.tokens
    p_current,          \* self.current
    p_functions,        \* parse's local list of functions
    p_status,           \* "new" | "running" | "returned" | "raised"
    p_error,            \* the SyntaxError raised, or NoParseError
    p_program,          \* the Program parse returned, or NoBlock
    \* --- LumaCompiler (compiler.py): one compile() call ---
    c_source,           \* the source handed to compile
    c_status,           \* "new" | "returned" | "raised"
    c_result,           \* the bytes compile returned or the exception raised
    \* --- WASMDecoder (decoder.py): decode_sections calls on one instance ---
    d_position,         \* self.position
    d_data,             \* the data of the current or latest call
    d_sections,         \* decode_sections' local list, its return value
    d_status,           \* "new" | "running" | "returned" | "raised"
    d_error,            \* the exception the call raised, or "none"
    d_calls,            \* number of decode_sections calls made on the instance
    d_previous,         \* the caller's record of the previous call: data, status, sections
    \* --- WASMCache (wasm_cache.py) and the files it reads and writes ---
    fs_source,          \* path -> [content, mtime] of the source file, or NoFile
    fs_wasm,            \* path -> the binary in the sibling .wasm file, or NoFile
    cache_files,        \* key -> the binary in cache_dir/<key>.wasm
    metadata_file,      \* the metadata pickled in cache_dir/metadata.pkl, or NoFile
    binary_cache,       \* self.binary_cache
    module_cache,       \* self.module_cache
    instance_cache,     \* self.instance_cache
    metadata,           \* self.metadata
    now,                \* datetime.now(), in days
    next_instance,      \* number of Instance objects created so far
    w_call,             \* the latest call on the cache, its argument and its key
    w_calls,            \* number of calls made on the cache
    w_result            \* what the latest call returned

lebVars == <<leb_value, leb_op, leb_bytes, leb_decoded>>

genVars == <<functions, function_types, local_vars, next_local_index, locals_count,
             gen_call, gen_arg, gen_result, gen_sections, gen_fi>>

lexVars == <<source, pos, line, column, current_char, tokens, lex_status, lex_error>>

execVars == <<x_func, x_arg, x_code, x_pc, x_stack, x_locals, x_labels, x_status,
              x_result, x_last>>

parseVars == <<p_tokens, p_current, p_functions, p_status, p_error, p_program>>

compileVars == <<c_source, c_status, c_result>>

decodeVars == <<d_position, d_data, d_sections, d_status, d_error, d_calls, d_previous>>

cacheVars == <<fs_source, fs_wasm, cache_files, metadata_file, binary_cache, module_cache,
               instance_cache, metadata, now, next_instance, w_call, w_calls, w_result>>

vars == <<lebVars, genVars, lexVars, execVars, parseVars, compileVars, decodeVars,
          cacheVars>>

(***************************************************************************)
(* Bit operations on Python integers.                                      *)
(***************************************************************************)
RECURSIVE Pow2(_)
Pow2(k) == IF k = 0 THEN 1 ELSE 2 * Pow2(k - 1)

\* a | b for nonnegative integers
RECURSIVE BitOr(_, _)
BitOr(a, b) ==
    IF a = 0 THEN b
    ELSE IF b = 0 THEN a
    ELSE (IF a % 2 = 1 \/ b % 2 = 1 THEN 1 ELSE 0) + 2 * BitOr(a \div 2, b \div 2)

\* value & 0x7f, value >> 7 (arithmetic shift: floor division), byte & mask
Low7(value) == value % 128
Shr7(value) == value \div 128
Bit7(byte) == (byte \div 128) % 2 = 1
Bit6(byte) == (byte \div 64) % 2 = 1

\* a variant of encode_unsigned_leb128 that never sets the continuation bit
RECURSIVE encode_unsigned_leb128_no_continuation(_)
encode_unsigned_leb128_no_continuation(value) ==
    IF Shr7(value) # 0
    THEN <<Low7(value)>> \o encode_unsigned_leb128_no_continuation(Shr7(value))
    ELSE <<Low7(value)>>

(***************************************************************************)
(* WASMGenerator.encode_unsigned_leb128 (value >= 0; the loop does not     *)
(* terminate on a negative value).                                         *)
(***************************************************************************)
RECURSIVE encode_unsigned_leb128(_)
encode_unsigned_leb128(value) ==
    LET byte == Low7(value)
        rest == Shr7(value)
    IN  IF rest # 0
        THEN <<BitOr(byte, 128)>> \o encode_unsigned_leb128(rest)
        ELSE <<byte>>

(***************************************************************************)
(* WASMGenerator.encode_signed_leb128                                      *)
(***************************************************************************)
RECURSIVE encode_signed_leb128(_)
encode_signed_leb128(value) ==
    LET byte == Low7(value)
        rest == Shr7(value)
    IN  IF (rest = 0 /\ ~Bit6(byte)) \/ (rest = -1 /\ Bit6(byte))
        THEN <<byte>>
        ELSE <<BitOr(byte, 128)>> \o encode_signed_leb128(rest)

(***************************************************************************)
(* WASMDecoder._decode_leb128: the loop state is (result, shift,           *)
(* bytes_read); data[bytes_read] past the end raises IndexError.           *)
(***************************************************************************)
RECURSIVE decode_leb128_loop(_, _, _, _)
decode_leb128_loop(data, result, shift, bytes_read) ==
    IF bytes_read >= Len(data)
    THEN [err |-> "IndexError", result |-> result, bytes_read |-> bytes_read]
    ELSE LET byte == data[bytes_read + 1]
             r    == BitOr(result, Low7(byte) * Pow2(shift))
         IN  IF ~Bit7(byte)
             THEN [err |-> "none", result |-> r, bytes_read |-> bytes_read + 1]
             ELSE decode_leb128_loop(data, r, shift + 7, bytes_read + 1)

decode_leb128(data) == decode_leb128_loop(data, 0, 0, 0)

NoDecode == [err |-> "none", result |-> 0, bytes_read |-> 0]

(***************************************************************************)
(* Python strings are sequences of one-character strings.  str.encode      *)
(* maps each character to its code point (the alphabet is ASCII).          *)
(***************************************************************************)
Ord(c) ==
    CASE c = "a" -> 97  [] c = "b" -> 98  [] c = "f" -> 102 [] c = "g" -> 103
      [] c = "x" -> 120 [] c = "y" -> 121 [] c = "i" -> 105 [] c = "n" -> 110
      [] c = "s" -> 115 [] c = "_" -> 95
      [] c = "0" -> 48  [] c = "1" -> 49  [] c = "2" -> 50  [] c = "3" -> 51
      [] c = "4" -> 52  [] c = "6" -> 54
      [] OTHER -> 63

encode_utf8(str) == [i \in 1..Len(str) |-> Ord(str[i])]

\* A call's outcome: the value returned, or the exception raised.
Ok(value) == [err |-> "none", v |-> value]
Raise(exc) == [err |-> exc, v |-> <<>>]

\* Python values handed to b''.join: a bytes object or an int.
PyBytes(b) == [t |-> "bytes", b |-> b]
PyInt(n) == [t |-> "int", b |-> <<n>>]

\* Iterating a bytes object yields ints.
IterBytes(b) == [i \in 1..Len(b) |-> PyInt(b[i])]
BytesList(list) == [i \in 1..Len(list) |-> PyBytes(list[i])]
IntList(list) == [i \in 1..Len(list) |-> PyInt(list[i])]

RECURSIVE Concat(_)
Concat(list) == IF list = <<>> THEN <<>> ELSE Head(list) \o Concat(Tail(list))

(***************************************************************************)
(* WASMGenerator constants                                                 *)
(***************************************************************************)
TYPE_SECTION == 1
FUNCTION_SECTION == 3
MEMORY_SECTION == 5
EXPORT_SECTION == 7
CODE_SECTION == 10
FUNC_TYPE == 96
I32_TYPE == 127
I64_TYPE == 126
F32_TYPE == 125
F64_TYPE == 124
I32_CONST == 65
I32_ADD == 106
I32_SUB == 107
I32_MUL == 108
I32_DIV == 109
I32_LT == 72
I32_GT == 74
I32_EQ == 70
LOCAL_GET == 32
LOCAL_SET == 33
BLOCK == 2
LOOP == 3
IF_OP == 4
ELSE_OP == 5
BR == 12
BR_IF == 13
END == 11
VOID_TYPE == 64

T_i32 == <<"i", "3", "2">>
T_i64 == <<"i", "6", "4">>
T_f32 == <<"f", "3", "2">>
T_f64 == <<"f", "6", "4">>

\* WASMGenerator.encode_vector: b''.join(items) raises TypeError when an
\* item is not a bytes object; the count is len(items).
encode_vector(items) ==
    IF \E i \in 1..Len(items) : items[i].t # "bytes"
    THEN Raise("TypeError")
    ELSE Ok(encode_unsigned_leb128(Len(items))
            \o Concat([i \in 1..Len(items) |-> items[i].b]))

\* a variant of encode_section that frames with the id byte only
encode_section_without_length(section_id, content) ==
    <<section_id>> \o content

\* WASMGenerator.encode_section
encode_section(section_id, content) ==
    <<section_id>> \o encode_unsigned_leb128(Len(content)) \o content

\* WASMGenerator.get_wasm_type: a dict lookup, KeyError on any other string
get_wasm_type(type_str) ==
    CASE type_str = T_i32 -> Ok(I32_TYPE)
      [] type_str = T_i64 -> Ok(I64_TYPE)
      [] type_str = T_f32 -> Ok(F32_TYPE)
      [] type_str = T_f64 -> Ok(F64_TYPE)
      [] OTHER -> Raise("KeyError")

\* WASMGenerator.get_binary_op: a dict lookup, KeyError on any other string
get_binary_op(op) ==
    CASE op = <<"+">> -> Ok(I32_ADD)
      [] op = <<"-">> -> Ok(I32_SUB)
      [] op = <<"*">> -> Ok(I32_MUL)
      [] op = <<"/">> -> Ok(I32_DIV)
      [] op = <<"<">> -> Ok(I32_LT)
      [] op = <<">">> -> Ok(I32_GT)
      [] op = <<"=", "=">> -> Ok(I32_EQ)
      [] OTHER -> Raise("KeyError")

\* self.type_sizes.get(type, 4)
type_size(type_str) ==
    CASE type_str = T_i32 -> 4
      [] type_str = T_i64 -> 8
      [] type_str = T_f32 -> 4
      [] type_str = T_f64 -> 8
      [] OTHER -> 4

(***************************************************************************)
(* AST nodes (parser.py dataclasses) are records tagged by kind.           *)
(***************************************************************************)
NumberLiteral(value) == [kind |-> "NumberLiteral", value |-> value, is_float |-> FALSE]
FloatLiteral(value) == [kind |-> "NumberLiteral", value |-> value, is_float |-> TRUE]
Identifier(name) == [kind |-> "Identifier", name |-> name]
BinaryOp(operator, left, right) ==
    [kind |-> "BinaryOp", operator |-> operator, left |-> left, right |-> right]
SizeofExpression(type) == [kind |-> "SizeofExpression", type |-> type]
AddressOfExpression(expression) ==
    [kind |-> "AddressOfExpression", expression |-> expression]
DereferenceExpression(pointer) == [kind |-> "DereferenceExpression", pointer |-> pointer]
AllocExpression(type, size) == [kind |-> "AllocExpression", type |-> type, size |-> size]
StringLiteral(value) == [kind |-> "StringLiteral", value |-> value]
Block(statements) == [kind |-> "Block", statements |-> statements]
NoBlock == [kind |-> "None"]
ReturnStatement(expression) == [kind |-> "ReturnStatement", expression |-> expression]
IfStatement(condition, then_block, else_block) ==
    [kind |-> "IfStatement", condition |-> condition,
     then_block |-> then_block, else_block |-> else_block]
WhileStatement(condition, body) ==
    [kind |-> "WhileStatement", condition |-> condition, body |-> body]
LetStatement(name, type, initializer) ==
    [kind |-> "LetStatement", name |-> name, type |-> type, initializer |-> initializer]
AssignStatement(name, operator, value) ==
    [kind |-> "AssignStatement", name |-> name, operator |-> operator, value |-> value]
FreeStatement(pointer) == [kind |-> "FreeStatement", pointer |-> pointer]
Parameter(name, type) == [name |-> name, type |-> type]
Function(name, params, return_type, body) ==
    [name |-> name, params |-> params, return_type |-> return_type, body |-> body]

\* self.local_vars[name] as one byte of code: KeyError when the name is not
\* bound, ValueError when the index does not fit a byte.
LocalIndex(lv, name) ==
    IF name \notin DOMAIN lv THEN Raise("KeyError")
    ELSE IF lv[name] > 255 THEN Raise("ValueError")
    ELSE Ok(<<lv[name]>>)

\* first error of two outcomes in evaluation order, else the bytes joined
Then(r1, r2) ==
    IF r1.err # "none" THEN r1
    ELSE IF r2.err # "none" THEN r2
    ELSE Ok(r1.v \o r2.v)

(***************************************************************************)
(* WASMGenerator.generate_expression with the methods it dispatches to.    *)
(* generate_binary_op, I32_NE and DUP are not attributes of the class:     *)
(* reaching them raises AttributeError.                                    *)
(***************************************************************************)
RECURSIVE generate_expression(_, _)
generate_expression(expr, lv) ==
    CASE expr.kind = "NumberLiteral" ->
            \* value & 0x7f on a float raises TypeError
            IF expr.is_float THEN Raise("TypeError")
            ELSE Ok(<<I32_CONST>> \o encode_signed_leb128(expr.value))
      [] expr.kind = "Identifier" ->
            Then(Ok(<<LOCAL_GET>>), LocalIndex(lv, expr.name))
      [] expr.kind = "BinaryOp" ->
            Raise("AttributeError")
      [] expr.kind = "AllocExpression" ->
            \* memory.size, the size expression, i32.const 0, i32.gt, if;
            \* the type-size arithmetic, memory.grow, then self.I32_NE
            Then(generate_expression(expr.size, lv), Raise("AttributeError"))
      [] expr.kind = "SizeofExpression" ->
            Ok(<<I32_CONST>> \o encode_signed_leb128(type_size(expr.type)))
      [] expr.kind = "AddressOfExpression" ->
            IF expr.expression.kind = "Identifier"
            THEN IF expr.expression.name \in DOMAIN lv
                 THEN Ok(<<I32_CONST>>
                         \o encode_signed_leb128(lv[expr.expression.name]))
                 ELSE Raise("KeyError")
            ELSE Raise("ValueError")
      [] expr.kind = "DereferenceExpression" ->
            \* the pointer expression, i32.const 0, then self.I32_NE
            Then(generate_expression(expr.pointer, lv), Raise("AttributeError"))
      [] OTHER -> Raise("ValueError")

(***************************************************************************)
(* Statement lowering.  generate_statements is the loop                    *)
(* "for s in block.statements: code.extend(self.generate_statement(s))".   *)
(***************************************************************************)
RECURSIVE generate_statement(_, _)
RECURSIVE generate_statements(_, _)

generate_statements(statements, lv) ==
    IF statements = <<>> THEN Ok(<<>>)
    ELSE Then(generate_statement(Head(statements), lv),
              generate_statements(Tail(statements), lv))

\* WASMGenerator.generate_if_statement
generate_if_statement(stmt, lv) ==
    Then(generate_expression(stmt.condition, lv),
    Then(Ok(<<IF_OP, VOID_TYPE>>),
    Then(generate_statements(stmt.then_block.statements, lv),
    Then(IF stmt.else_block.kind = "Block"
         THEN Then(Ok(<<ELSE_OP>>),
                   generate_statements(stmt.else_block.statements, lv))
         ELSE Ok(<<>>),
         Ok(<<END>>)))))

\* WASMGenerator.generate_while_statement
generate_while_statement(stmt, lv) ==
    Then(Ok(<<BLOCK, VOID_TYPE, LOOP, VOID_TYPE>>),
    Then(generate_expression(stmt.condition, lv),
    Then(Ok(<<BR_IF, 1>>),
    Then(generate_statements(stmt.body.statements, lv),
         Ok(<<BR, 0, END, END>>)))))

\* WASMGenerator.generate_let_statement
generate_let_statement(stmt, lv) ==
    Then(generate_expression(stmt.initializer, lv),
    Then(Ok(<<LOCAL_SET>>), LocalIndex(lv, stmt.name)))

\* WASMGenerator.generate_assignment; stmt.operator[0] is the operator
\* without its '='
generate_assignment(stmt, lv) ==
    IF stmt.operator = <<"=">>
    THEN Then(generate_expression(stmt.value, lv),
         Then(Ok(<<LOCAL_SET>>), LocalIndex(lv, stmt.name)))
    ELSE LET op == get_binary_op(<<stmt.operator[1]>>)
         IN  Then(Ok(<<LOCAL_GET>>),
             Then(LocalIndex(lv, stmt.name),
             Then(generate_expression(stmt.value, lv),
             Then(IF op.err = "none" THEN Ok(<<op.v>>) ELSE op,
             Then(Ok(<<LOCAL_SET>>), LocalIndex(lv, stmt.name))))))

\* WASMGenerator.generate_free_statement
generate_free_statement(stmt, lv) ==
    generate_expression(stmt.pointer, lv)

\* WASMGenerator.generate_statement
generate_statement(stmt, lv) ==
    CASE stmt.kind = "ReturnStatement" -> generate_expression(stmt.expression, lv)
      [] stmt.kind = "IfStatement" -> generate_if_statement(stmt, lv)
      [] stmt.kind = "WhileStatement" -> generate_while_statement(stmt, lv)
      [] stmt.kind = "LetStatement" -> generate_let_statement(stmt, lv)
      [] stmt.kind = "AssignStatement" -> generate_assignment(stmt, lv)
      [] stmt.kind = "FreeStatement" -> generate_free_statement(stmt, lv)
      [] OTHER -> generate_expression(stmt, lv)

(***************************************************************************)
(* Dictionaries are fns; d[k] = v returns the updated dictionary.    *)
(***************************************************************************)
EmptyDict == [k \in {} |-> 0]
DictSet(d, key, value) ==
    [k \in (DOMAIN d) \cup {key} |-> IF k = key THEN value ELSE d[k]]

\* [self.get_wasm_type(p.type) for p in items]: the first KeyError, else
\* the list of value types
wasm_types(type_strs) ==
    IF \E i \in 1..Len(type_strs) : get_wasm_type(type_strs[i]).err # "none"
    THEN Raise("KeyError")
    ELSE Ok([i \in 1..Len(type_strs) |-> get_wasm_type(type_strs[i]).v])

ParamTypeStrs(func) == [i \in 1..Len(func.params) |-> func.params[i].type]

(***************************************************************************)
(* WASMGenerator.generate_type_section: the loop over self.functions with  *)
(* its local list `types` and the dictionary self.function_types.          *)
(* param_types and return_types are lists of ints, and encode_vector joins *)
(* them as if they were bytes objects.                                     *)
(***************************************************************************)
RECURSIVE type_section_loop(_, _, _, _)
type_section_loop(fns, i, types, ftypes) ==
    IF i > Len(fns)
    THEN [res |-> encode_vector(BytesList(types)), function_types |-> ftypes]
    ELSE LET func == fns[i]
             param_types == wasm_types(ParamTypeStrs(func))
             return_types == wasm_types(<<func.return_type>>)
             func_type == Then(Ok(<<FUNC_TYPE>>),
                          Then(encode_vector(IntList(param_types.v)),
                               encode_vector(IntList(return_types.v))))
             signature == <<param_types.v, return_types.v>>
         IN  IF param_types.err # "none"
             THEN [res |-> param_types, function_types |-> ftypes]
             ELSE IF return_types.err # "none"
             THEN [res |-> return_types, function_types |-> ftypes]
             ELSE IF func_type.err # "none"
             THEN [res |-> func_type, function_types |-> ftypes]
             ELSE IF signature \notin DOMAIN ftypes
             THEN type_section_loop(fns, i + 1, Append(types, func_type.v),
                                    DictSet(ftypes, signature, Len(types)))
             ELSE type_section_loop(fns, i + 1, types, ftypes)

generate_type_section(fns, ftypes) ==
    type_section_loop(fns, 1, <<>>, ftypes)

(***************************************************************************)
(* WASMGenerator.generate_function_section                                 *)
(***************************************************************************)
RECURSIVE function_section_loop(_, _, _, _)
function_section_loop(fns, i, indices, ftypes) ==
    IF i > Len(fns)
    THEN IF \E k \in 1..Len(indices) : indices[k] > 255
         THEN Raise("ValueError")
         ELSE encode_vector([k \in 1..Len(indices) |-> PyBytes(<<indices[k]>>)])
    ELSE LET func == fns[i]
             param_types == wasm_types(ParamTypeStrs(func))
             return_types == wasm_types(<<func.return_type>>)
             signature == <<param_types.v, return_types.v>>
         IN  IF param_types.err # "none" THEN param_types
             ELSE IF return_types.err # "none" THEN return_types
             ELSE IF signature \notin DOMAIN ftypes THEN Raise("KeyError")
             ELSE function_section_loop(fns, i + 1,
                      Append(indices, ftypes[signature]), ftypes)

generate_function_section(fns, ftypes) ==
    function_section_loop(fns, 1, <<>>, ftypes)

\* WASMGenerator.generate_memory_section
generate_memory_section == encode_vector(<<PyBytes(<<1, 0, 1>>)>>)

(***************************************************************************)
(* WASMGenerator.generate_export_section: name_bytes is a bytes object,    *)
(* and encode_vector iterates it, so it joins ints.                        *)
(***************************************************************************)
export_entry(i, func) ==
    Then(encode_vector(IterBytes(encode_utf8(func.name))),
    Then(Ok(<<0>>), Ok(encode_unsigned_leb128(i))))

RECURSIVE export_section_loop(_, _, _)
export_section_loop(fns, i, exports) ==
    IF i > Len(fns) THEN encode_vector(BytesList(exports))
    ELSE LET export == export_entry(i - 1, fns[i])
         IN  IF export.err # "none" THEN export
             ELSE export_section_loop(fns, i + 1, Append(exports, export.v))

generate_export_section(fns) == export_section_loop(fns, 1, <<>>)

(***************************************************************************)
(* WASMGenerator.generate_function_body.  The first loop collects the      *)
(* top-level Let statements into self.local_vars; the second emits code.   *)
(* The generator fields after the call are returned with its outcome.      *)
(***************************************************************************)
RECURSIVE collect_locals(_, _, _, _)
collect_locals(statements, lv, nli, lc) ==
    IF statements = <<>>
    THEN [local_vars |-> lv, next_local_index |-> nli,
          locals_count |-> lc]
    ELSE IF Head(statements).kind = "LetStatement"
    THEN collect_locals(Tail(statements),
                        DictSet(lv, Head(statements).name, nli),
                        nli + 1, lc + 1)
    ELSE collect_locals(Tail(statements), lv, nli, lc)

function_body_result(c, body) ==
    [res |-> IF body.err # "none" THEN body
             ELSE encode_vector(<<PyBytes(body.v)>>),
     local_vars |-> c.local_vars,
     next_local_index |-> c.next_local_index,
     locals_count |-> c.locals_count]

function_body_emit(func, c) ==
    function_body_result(c,
        \* locals = the vector of (1, i32) groups; code = statements + END
        Then(encode_vector([k \in 1..c.locals_count |-> PyBytes(<<1, I32_TYPE>>)]),
        Then(generate_statements(func.body.statements, c.local_vars),
             Ok(<<END>>))))

generate_function_body(func, lv, nli) ==
    function_body_emit(func, collect_locals(func.body.statements, lv, nli, 0))

\* "for param in func.params: self.local_vars[param.name] = ..." from the
\* reset state
RECURSIVE bind_params(_, _, _)
bind_params(params, lv, nli) ==
    IF params = <<>>
    THEN [local_vars |-> lv, next_local_index |-> nli]
    ELSE bind_params(Tail(params),
                     DictSet(lv, Head(params).name, nli),
                     nli + 1)

(***************************************************************************)
(* WASMGenerator.generate_code_section: fi is the position of the function *)
(* being generated when the call returned or raised (0: none).             *)
(***************************************************************************)
RECURSIVE code_section_loop(_, _, _, _)
RECURSIVE code_section_step(_, _, _, _)

code_section_loop(fns, i, bodies, st) ==
    IF i > Len(fns)
    THEN [res |-> encode_vector(BytesList(bodies)),
          local_vars |-> st.local_vars, next_local_index |-> st.next_local_index,
          locals_count |-> st.locals_count, fi |-> i - 1]
    ELSE code_section_step(fns, i, bodies,
             generate_function_body(fns[i],
                 bind_params(fns[i].params, EmptyDict, 0).local_vars,
                 bind_params(fns[i].params, EmptyDict, 0).next_local_index))

\* b: what generate_function_body returned or raised for function i
code_section_step(fns, i, bodies, b) ==
    IF b.res.err # "none"
    THEN [res |-> b.res,
          local_vars |-> b.local_vars, next_local_index |-> b.next_local_index,
          locals_count |-> b.locals_count, fi |-> i]
    ELSE code_section_loop(fns, i + 1, Append(bodies, b.res.v), b)

generate_code_section(fns, lv, nli, lc) ==
    code_section_loop(fns, 1, <<>>,
        [local_vars |-> lv, next_local_index |-> nli,
         locals_count |-> lc])

Preamble == <<0, 97, 115, 109, 1, 0, 0, 0>>

(***************************************************************************)
(* WASMGenerator.generate: the five sections in order, the first exception *)
(* ending the call; the fields written before it stay written.  ts..cs are *)
(* the outcomes of the five generate_*_section calls.                      *)
(***************************************************************************)
generate_assemble(fns, ts, fs, ms, es, cs, lv, nli, lc) ==
    [res |-> IF Then(ts.res, Then(fs, Then(ms, es))).err # "none"
             THEN Raise(Then(ts.res, Then(fs, Then(ms, es))).err)
             ELSE IF cs.res.err # "none" THEN Raise(cs.res.err)
             ELSE Ok(Preamble
                     \o encode_section(TYPE_SECTION, ts.res.v)
                     \o encode_section(FUNCTION_SECTION, fs.v)
                     \o encode_section(MEMORY_SECTION, ms.v)
                     \o encode_section(EXPORT_SECTION, es.v)
                     \o encode_section(CODE_SECTION, cs.res.v)),
     functions |-> fns,
     function_types |-> ts.function_types,
     local_vars |-> cs.local_vars,
     next_local_index |-> cs.next_local_index,
     locals_count |-> cs.locals_count,
     fi |-> cs.fi,
     sections |-> [type |-> ts.res, function |-> fs, memory |-> ms,
                   export |-> es, code |-> cs.res]]

NotRun == Raise("not run")

\* a call that is reached only when every earlier one returned
After(earlier, call) == IF earlier.err = "none" THEN call ELSE NotRun

generate_sections(fns, ts, lv, nli, lc) ==
    generate_assemble(fns, ts,
        After(ts.res, generate_function_section(fns, ts.function_types)),
        After(Then(ts.res, generate_function_section(fns, ts.function_types)),
              generate_memory_section),
        After(Then(ts.res, generate_function_section(fns, ts.function_types)),
              generate_export_section(fns)),
        IF Then(ts.res, Then(generate_function_section(fns, ts.function_types),
                             generate_export_section(fns))).err = "none"
        THEN generate_code_section(fns, lv, nli, lc)
        ELSE [res |-> NotRun, local_vars |-> lv, next_local_index |-> nli,
              locals_count |-> lc, fi |-> 0],
        lv, nli, lc)

generate(ast, ftypes, lv, nli, lc) ==
    generate_sections(ast.functions, generate_type_section(ast.functions, ftypes),
                      lv, nli, lc)

(***************************************************************************)
(* The generator as an object: construction and the calls made on it.      *)
(***************************************************************************)
NoSections == [type |-> NotRun, function |-> NotRun, memory |-> NotRun,
               export |-> NotRun, code |-> NotRun]
NoArg == [kind |-> "None"]

\* WASMGenerator.__init__
GenInit ==
    /\ functions = <<>>
    /\ function_types = EmptyDict
    /\ local_vars = EmptyDict
    /\ next_local_index = 0
    /\ locals_count = 0
    /\ gen_call = "none"
    /\ gen_arg = NoArg
    /\ gen_result = NotRun
    /\ gen_sections = NoSections
    /\ gen_fi = 0

(***************************************************************************)
(* Programs handed to the generator.                                       *)
(***************************************************************************)
MaxParams == 2
MaxLets == 2
MaxFuncs == 2

N_a == <<"a">>
N_b == <<"b">>
N_x == <<"x">>
N_y == <<"y">>
N_f == <<"f">>
N_g == <<"g">>
N_n == <<"n">>
N_s == <<"s">>
T_string == <<"s", "t", "r", "i", "n", "g">>

SeqsUpTo(S, n) == UNION { [1..k -> S] : k \in 0..n }

\* every parameter list and every run of top-level Lets over two names
\* each, so that lists with a repeated name are among them
ParamLists == SeqsUpTo({Parameter(N_a, T_i32), Parameter(N_x, T_i32)}, MaxParams)
LetLists ==
    SeqsUpTo({LetStatement(N_x, T_i32, NumberLiteral(1)),
              LetStatement(N_y, T_i32, Identifier(N_a))}, MaxLets)

LayoutFunctions ==
    { Function(N_f, ps, T_i32, Block(ls)) : ps \in ParamLists, ls \in LetLists }

SumDown ==
    Function(N_g, <<Parameter(N_n, T_i32)>>, T_i32,
        Block(<<LetStatement(N_s, T_i32, NumberLiteral(0)),
                WhileStatement(Identifier(N_n),
                    Block(<<AssignStatement(N_s, <<"+", "=">>, Identifier(N_n)),
                            AssignStatement(N_n, <<"-", "=">>, NumberLiteral(1))>>)),
                ReturnStatement(Identifier(N_s))>>))

MixedFunctions ==
    { Function(N_f, <<>>, T_i32, Block(<<>>)),
      Function(N_g, <<>>, T_i32, Block(<<ReturnStatement(FloatLiteral(42))>>)),
      Function(N_g, <<Parameter(N_a, T_i32), Parameter(N_b, T_i32)>>, T_i32,
               Block(<<ReturnStatement(BinaryOp(<<"+">>, Identifier(N_a), Identifier(N_b)))>>)),
      Function(N_f, <<Parameter(N_a, T_i64)>>, T_f64,
               Block(<<ReturnStatement(Identifier(N_x))>>)),
      Function(N_a, <<Parameter(N_a, T_string)>>, T_i32,
               Block(<<FreeStatement(Identifier(N_a)), SizeofExpression(T_i64)>>)),
      Function(N_f, <<Parameter(N_a, T_i32)>>, T_i32,
               Block(<<IfStatement(Identifier(N_a),
                                   Block(<<LetStatement(N_y, T_i32, NumberLiteral(1))>>),
                                   Block(<<AssignStatement(N_a, <<"=">>, NumberLiteral(-1))>>)),
                       IfStatement(NumberLiteral(64), Block(<<>>), NoBlock)>>)),
      SumDown }

\* f(n) { return x; let x = 1; }
UseBeforeLet ==
    Function(N_f, <<Parameter(N_n, T_i32)>>, T_i32,
        Block(<<ReturnStatement(Identifier(N_x)),
                LetStatement(N_x, T_i32, NumberLiteral(1))>>))

Programs ==
    { [functions |-> <<f>>] : f \in LayoutFunctions }
    \cup { [functions |-> fs] : fs \in SeqsUpTo(MixedFunctions, MaxFuncs) }
    \cup { [functions |-> <<UseBeforeLet>>] }

\* programs handed to an instance that has been used
LaterPrograms ==
    { [functions |-> fs] :
          fs \in SeqsUpTo({Function(N_f, <<>>, T_i32, Block(<<>>)), SumDown}, 1) }

Operators ==
    { <<"+">>, <<"-">>, <<"*">>, <<"/">>, <<"<">>, <<">">>, <<"=", "=">>,
      <<"<", "=">>, <<">", "=">>, <<"%">> }

Operands == { Identifier(N_a), Identifier(N_b), NumberLiteral(1) }

Expressions ==
    { BinaryOp(op, l, r) : op \in Operators, l \in Operands, r \in Operands }
    \cup { NumberLiteral(0), NumberLiteral(-1), NumberLiteral(64), NumberLiteral(300),
           FloatLiteral(1), Identifier(N_a), Identifier(N_x), Identifier(N_b),
           SizeofExpression(T_i32), SizeofExpression(T_i64), SizeofExpression(T_string),
           AddressOfExpression(Identifier(N_a)), AddressOfExpression(NumberLiteral(1)),
           DereferenceExpression(Identifier(N_a)), DereferenceExpression(Identifier(N_b)),
           AllocExpression(T_i32, NumberLiteral(1)), StringLiteral(<<"a">>),
           BinaryOp(<<"+">>, BinaryOp(<<"*">>, Identifier(N_a), Identifier(N_x)),
                    NumberLiteral(1)) }

(***************************************************************************)
(* Calls on the generator.  A new instance is handed a program             *)
(* (generate); generate_code_section and generate_expression are then      *)
(* called on the instance as generate left it, and generate is called      *)
(* again on the used instance.                                             *)
(***************************************************************************)
GenerateReturns(g) ==
    /\ functions' = g.functions
    /\ function_types' = g.function_types
    /\ local_vars' = g.local_vars
    /\ next_local_index' = g.next_local_index
    /\ locals_count' = g.locals_count
    /\ gen_result' = g.res
    /\ gen_sections' = g.sections
    /\ gen_fi' = g.fi

Generate(ast) ==
    /\ GenerateReturns(generate(ast, function_types, local_vars, next_local_index,
                                locals_count))
    /\ gen_call' = "generate"
    /\ gen_arg' = NoArg
    /\ UNCHANGED <<lebVars, lexVars, execVars, parseVars, compileVars, decodeVars, cacheVars>>

GenerateCodeSectionReturns(c) ==
    /\ local_vars' = c.local_vars
    /\ next_local_index' = c.next_local_index
    /\ locals_count' = c.locals_count
    /\ gen_result' = c.res
    /\ gen_fi' = c.fi

GenerateCodeSection ==
    /\ gen_call = "generate"
    /\ GenerateCodeSectionReturns(
           generate_code_section(functions, local_vars, next_local_index, locals_count))
    /\ gen_call' = "generate_code_section"
    /\ gen_arg' = NoArg
    /\ UNCHANGED <<functions, function_types, gen_sections>>
    /\ UNCHANGED <<lebVars, lexVars, execVars, parseVars, compileVars, decodeVars, cacheVars>>

\* the section methods called on their own read self.functions as generate
\* left it
GenerateTypeSectionReturns(t) ==
    /\ function_types' = t.function_types
    /\ gen_result' = t.res

GenerateTypeSection ==
    /\ gen_call = "generate"
    /\ GenerateTypeSectionReturns(generate_type_section(functions, function_types))
    /\ gen_call' = "generate_type_section"
    /\ gen_arg' = NoArg
    /\ UNCHANGED <<functions, local_vars, next_local_index, locals_count,
                   gen_sections, gen_fi>>
    /\ UNCHANGED <<lebVars, lexVars, execVars, parseVars, compileVars, decodeVars, cacheVars>>

GenerateExportSection ==
    /\ gen_call = "generate"
    /\ gen_result' = generate_export_section(functions)
    /\ gen_call' = "generate_export_section"
    /\ gen_arg' = NoArg
    /\ UNCHANGED <<functions, function_types, local_vars, next_local_index,
                   locals_count, gen_sections, gen_fi>>
    /\ UNCHANGED <<lebVars, lexVars, execVars, parseVars, compileVars, decodeVars, cacheVars>>

GenerateExpression(expr) ==
    /\ gen_call \in {"generate_code_section", "generate_expression"}
    /\ gen_result' = generate_expression(expr, local_vars)
    /\ gen_call' = "generate_expression"
    /\ gen_arg' = expr
    /\ UNCHANGED <<functions, function_types, local_vars, next_local_index,
                   locals_count, gen_sections, gen_fi>>
    /\ UNCHANGED <<lebVars, lexVars, execVars, parseVars, compileVars, decodeVars, cacheVars>>

GenNext ==
    \/ gen_call = "none" /\ \E ast \in Programs : Generate(ast)
    \/ gen_call # "none" /\ \E ast \in LaterPrograms : Generate(ast)
    \/ GenerateCodeSection
    \/ GenerateTypeSection
    \/ GenerateExportSection
    \/ \E expr \in Expressions : GenerateExpression(expr)

(***************************************************************************)
(* Lexer (lexer.py).  The source is a sequence of characters; None is the  *)
(* value NoChar.                                                           *)
(***************************************************************************)
NoChar == "None"
\* no exception
NoError == [type |-> "none", msg |-> "", char |-> NoChar, line |-> 0, column |-> 0]
Digits == {"0", "1", "2", "3", "4", "5", "6", "7", "8", "9"}
Letters ==
    {"a", "b", "c", "d", "e", "f", "g", "h", "i", "j", "k", "l", "m", "n", "o",
     "p", "q", "r", "s", "t", "u", "v", "w", "x", "y", "z"}
Spaces == {" ", "\n", "\t", "\r"}
isspace(c) == c \in Spaces
isdigit(c) == c \in Digits
isalpha(c) == c \in Letters
isalnum(c) == c \in Letters \cup Digits

\* Lexer.KEYWORDS.get(word, 'IDENTIFIER')
KEYWORDS(word) ==
    CASE word = <<"f", "u", "n", "c">> -> "FUNCTION"
      [] word = <<"r", "e", "t", "u", "r", "n">> -> "RETURN"
      [] word = <<"i", "f">> -> "IF"
      [] word = <<"e", "l", "s", "e">> -> "ELSE"
      [] word = <<"w", "h", "i", "l", "e">> -> "WHILE"
      [] word = <<"l", "e", "t">> -> "LET"
      [] word = <<"i", "3", "2">> -> "TYPE"
      [] word = <<"i", "6", "4">> -> "TYPE"
      [] word = <<"f", "3", "2">> -> "TYPE"
      [] word = <<"f", "6", "4">> -> "TYPE"
      [] word = <<"a", "l", "l", "o", "c">> -> "ALLOC"
      [] word = <<"f", "r", "e", "e">> -> "FREE"
      [] word = <<"s", "i", "z", "e", "o", "f">> -> "SIZEOF"
      [] word = <<"p", "t", "r">> -> "PTR"
      [] word = <<"r", "e", "f">> -> "REF"
      [] word = <<"d", "e", "r", "e", "f">> -> "DEREF"
      [] word = <<"s", "t", "r", "i", "n", "g">> -> "TYPE"
      [] word = <<"l", "e", "n">> -> "LEN"
      [] word = <<"c", "o", "n", "c", "a", "t">> -> "CONCAT"
      [] word = <<"s", "u", "b", "s", "t", "r">> -> "SUBSTR"
      [] OTHER -> "IDENTIFIER"

\* the keys of Lexer.OPERATORS and the lookup
OPERATOR_KEYS ==
    { <<"+">>, <<"-">>, <<"*">>, <<"/">>, <<"=">>, <<"=", "=">>,
      <<"<">>, <<">">>, <<"<", "=">>, <<">", "=">>, <<"(">>, <<")">>,
      <<"{">>, <<"}">>, <<":">>, <<";">>, <<",">>, <<"-", ">">>,
      <<"+", "=">>, <<"-", "=">>, <<"*", "=">>, <<"/", "=">>, <<"&">>, <<"@">>,
      <<".">> }

OPERATORS(op) ==
    CASE op = <<"+">> -> "PLUS"
      [] op = <<"-">> -> "MINUS"
      [] op = <<"*">> -> "MULTIPLY"
      [] op = <<"/">> -> "DIVIDE"
      [] op = <<"=">> -> "ASSIGN"
      [] op = <<"=", "=">> -> "EQUALS"
      [] op = <<"<">> -> "LESS"
      [] op = <<">">> -> "GREATER"
      [] op = <<"<", "=">> -> "LESS_EQUAL"
      [] op = <<">", "=">> -> "GREATER_EQUAL"
      [] op = <<"(">> -> "LPAREN"
      [] op = <<")">> -> "RPAREN"
      [] op = <<"{">> -> "LBRACE"
      [] op = <<"}">> -> "RBRACE"
      [] op = <<":">> -> "COLON"
      [] op = <<";">> -> "SEMICOLON"
      [] op = <<",">> -> "COMMA"
      [] op = <<"-", ">">> -> "ARROW"
      [] op = <<"+", "=">> -> "PLUS_ASSIGN"
      [] op = <<"-", "=">> -> "MINUS_ASSIGN"
      [] op = <<"*", "=">> -> "MULTIPLY_ASSIGN"
      [] op = <<"/", "=">> -> "DIVIDE_ASSIGN"
      [] op = <<"&">> -> "ADDRESS_OF"
      [] op = <<"@">> -> "DEREFERENCE"
      [] op = <<".">> -> "DOT"

\* the None a token method returns
NoToken == [type |-> "None", value |-> <<>>, line |-> 0, column |-> 0]

Token(type, value, ln, col) ==
    [type |-> type, value |-> value, line |-> ln, column |-> col]

\* Lexer.init: the lexer's fields, with tokenize's local list and outcome
lexer_init(src) ==
    [source |-> src, pos |-> 0, line |-> 1, column |-> 1,
     current_char |-> IF src # <<>> THEN src[1] ELSE NoChar,
     tokens |-> <<>>, status |-> "running", error |-> NoError]

\* Lexer.advance
advance(lx) ==
    IF lx.pos + 1 > Len(lx.source) - 1
    THEN [lx EXCEPT !.pos = lx.pos + 1, !.current_char = NoChar]
    ELSE [lx EXCEPT !.pos = lx.pos + 1,
                    !.line = IF lx.current_char = "\n" THEN lx.line + 1 ELSE lx.line,
                    !.column = IF lx.current_char = "\n" THEN 1 ELSE lx.column + 1,
                    !.current_char = lx.source[lx.pos + 2]]

\* Lexer.peek
peek(lx) ==
    IF lx.pos + 1 > Len(lx.source) - 1 THEN NoChar ELSE lx.source[lx.pos + 2]

\* Lexer.skip_whitespace
RECURSIVE skip_whitespace(_)
skip_whitespace(lx) ==
    IF lx.current_char # NoChar /\ isspace(lx.current_char)
    THEN skip_whitespace(advance(lx))
    ELSE lx

\* Lexer.skip_comment
RECURSIVE skip_comment(_)
skip_comment(lx) ==
    IF lx.current_char # NoChar /\ lx.current_char # "\n"
    THEN skip_comment(advance(lx))
    ELSE lx

\* int(c) of one digit
DigitValue(c) ==
    CASE c = "0" -> 0 [] c = "1" -> 1 [] c = "2" -> 2 [] c = "3" -> 3
      [] c = "4" -> 4 [] c = "5" -> 5 [] c = "6" -> 6 [] c = "7" -> 7
      [] c = "8" -> 8 [] c = "9" -> 9

\* int(result) of a digit string
RECURSIVE int(_)
int(text) ==
    IF text = <<>> THEN 0
    ELSE 10 * int(SubSeq(text, 1, Len(text) - 1)) + DigitValue(text[Len(text)])

RECURSIVE StripTrailingZeros(_)
StripTrailingZeros(text) ==
    IF text # <<>> /\ text[Len(text)] = "0"
    THEN StripTrailingZeros(SubSeq(text, 1, Len(text) - 1))
    ELSE text

\* float(result) of digits with exactly one '.': the whole part and the
\* significant fraction digits
float(text) ==
    LET dot == CHOOSE i \in 1..Len(text) : text[i] = "."
    IN  [whole |-> int(SubSeq(text, 1, dot - 1)),
         frac |-> StripTrailingZeros(SubSeq(text, dot + 1, Len(text)))]

\* the result of a token method: the lexer afterwards, the token, the error
LexOk(lx, tok) == [lx |-> lx, tok |-> tok, err |-> NoError]
LexNone(lx) == [lx |-> lx, tok |-> NoToken, err |-> NoError]
LexRaise(lx, type, msg, ln, col) ==
    [lx |-> lx, tok |-> NoToken,
     err |-> [type |-> type, msg |-> msg, char |-> lx.current_char,
              line |-> ln, column |-> col]]

\* the while loop of Lexer.number
RECURSIVE number_loop(_, _)
number_loop(lx, result) ==
    IF lx.current_char # NoChar /\ (isdigit(lx.current_char) \/ lx.current_char = ".")
    THEN number_loop(advance(lx), Append(result, lx.current_char))
    ELSE [lx |-> lx, result |-> result]

number_token(r, start_column) ==
    LET dots == {i \in 1..Len(r.result) : r.result[i] = "."}
    IN  IF dots = {}
        THEN LexOk(r.lx, Token("INTEGER", int(r.result), r.lx.line, start_column))
        ELSE IF Cardinality(dots) = 1
        THEN LexOk(r.lx, Token("FLOAT", float(r.result), r.lx.line, start_column))
        ELSE LexRaise(r.lx, "ValueError", "could not convert string to float",
                      r.lx.line, start_column)

\* Lexer.number
number(lx) == number_token(number_loop(lx, <<>>), lx.column)

\* the while loop of Lexer.identifier
RECURSIVE identifier_loop(_, _)
identifier_loop(lx, result) ==
    IF lx.current_char # NoChar /\ (isalnum(lx.current_char) \/ lx.current_char = "_")
    THEN identifier_loop(advance(lx), Append(result, lx.current_char))
    ELSE [lx |-> lx, result |-> result]

identifier_token(r, start_column) ==
    LexOk(r.lx, Token(KEYWORDS(r.result), r.result, r.lx.line, start_column))

\* Lexer.identifier
identifier(lx) == identifier_token(identifier_loop(lx, <<>>), lx.column)

\* Lexer.operator, after the comment test: two-character operators first
operator_token(lx, nxt, start_column) ==
    IF <<lx.current_char>> \o (IF nxt = NoChar THEN <<>> ELSE <<nxt>>) \in OPERATOR_KEYS
    THEN IF nxt = NoChar
         THEN LexRaise(lx, "TypeError", "can only concatenate str", lx.line, lx.column)
         ELSE LexOk(advance(advance(lx)),
                    Token(OPERATORS(<<lx.current_char, nxt>>), <<lx.current_char, nxt>>,
                          advance(advance(lx)).line, start_column))
    ELSE IF <<lx.current_char>> \in OPERATOR_KEYS
    THEN LexOk(advance(lx),
               Token(OPERATORS(<<lx.current_char>>), <<lx.current_char>>,
                     advance(lx).line, start_column))
    ELSE LexNone(lx)

\* Lexer.operator
operator(lx) ==
    IF lx.current_char = NoChar THEN LexNone(lx)
    ELSE IF lx.current_char = "/" /\ peek(lx) = "/"
    THEN LexNone(skip_comment(advance(advance(lx))))
    ELSE operator_token(lx, peek(lx), lx.column)

\* the character an escape sequence stands for (NoChar: invalid escape)
Escape(c) ==
    CASE c = "n" -> "\n" [] c = "t" -> "\t" [] c = "\"" -> "\"" [] c = "\\" -> "\\"
      [] OTHER -> NoChar

\* the while loop of Lexer.string_literal and what follows it
RECURSIVE string_loop(_, _, _)
string_loop(lx, result, start_column) ==
    IF lx.current_char # NoChar /\ lx.current_char # "\""
    THEN IF lx.current_char = "\\"
         THEN IF Escape(advance(lx).current_char) = NoChar
              THEN LexRaise(advance(lx), "SyntaxError", "Invalid escape sequence",
                            advance(lx).line, advance(lx).column)
              ELSE string_loop(advance(advance(lx)),
                               Append(result, Escape(advance(lx).current_char)),
                               start_column)
         ELSE string_loop(advance(lx), Append(result, lx.current_char), start_column)
    ELSE IF lx.current_char = NoChar
    THEN LexRaise(lx, "SyntaxError", "Unterminated string", lx.line, start_column)
    ELSE LexOk(advance(lx), Token("STRING", result, advance(lx).line, start_column))

\* Lexer.string_literal
string_literal(lx) == string_loop(advance(lx), <<>>, lx.column)

\* tokenize: a token method returned r; append its token or raise its error
tokenize_append(r) ==
    IF r.err # NoError
    THEN [r.lx EXCEPT !.status = "raised", !.error = r.err]
    ELSE [r.lx EXCEPT !.tokens = Append(r.lx.tokens, r.tok)]

\* tokenize: operator() returned r; no token is the invalid-character error
tokenize_operator(r) ==
    IF r.err = NoError /\ r.tok = NoToken
    THEN tokenize_append(LexRaise(r.lx, "SyntaxError", "Invalid character",
                                  r.lx.line, r.lx.column))
    ELSE tokenize_append(r)

\* a variant of tokenize_return that returns without the EOF token
tokenize_return_without_eof(lx) ==
    [lx EXCEPT !.status = "returned"]

\* tokenize: the end of the loop, the EOF token and the return
tokenize_return(lx) ==
    [lx EXCEPT !.tokens = Append(lx.tokens, Token("EOF", <<>>, lx.line, lx.column)),
               !.status = "returned"]

\* which branch of tokenize's loop runs for the current character
tokenize_branch(c) ==
    IF c = NoChar THEN "return"
    ELSE IF isspace(c) THEN "skip_whitespace"
    ELSE IF isdigit(c) THEN "number"
    ELSE IF isalpha(c) \/ c = "_" THEN "identifier"
    ELSE IF c = "\"" THEN "string_literal"
    ELSE "operator"

\* one iteration of tokenize's loop
tokenize_step(lx) ==
    CASE tokenize_branch(lx.current_char) = "return" -> tokenize_return(lx)
      [] tokenize_branch(lx.current_char) = "skip_whitespace" -> skip_whitespace(lx)
      [] tokenize_branch(lx.current_char) = "number" -> tokenize_append(number(lx))
      [] tokenize_branch(lx.current_char) = "identifier" -> tokenize_append(identifier(lx))
      [] tokenize_branch(lx.current_char) = "string_literal" ->
             tokenize_append(string_literal(lx))
      [] OTHER -> tokenize_operator(operator(lx))

RECURSIVE tokenize_loop(_)
tokenize_loop(lx) ==
    IF lx.status = "running" THEN tokenize_loop(tokenize_step(lx)) ELSE lx

\* Lexer.tokenize as a function of the source
tokenize(src) == tokenize_loop(lexer_init(src))

(***************************************************************************)
(* The Lexer object: a tokenize call runs one loop iteration per step.     *)
(***************************************************************************)
LexIdle ==
    /\ source = <<>>
    /\ pos = 0
    /\ line = 1
    /\ column = 1
    /\ current_char = NoChar
    /\ tokens = <<>>
    /\ lex_status = "new"
    /\ lex_error = NoError

\* the lexer's fields as one record
Lexer ==
    [source |-> source, pos |-> pos, line |-> line, column |-> column,
     current_char |-> current_char, tokens |-> tokens, status |-> lex_status,
     error |-> lex_error]

LexerBecomes(lx) ==
    /\ source' = lx.source
    /\ pos' = lx.pos
    /\ line' = lx.line
    /\ column' = lx.column
    /\ current_char' = lx.current_char
    /\ tokens' = lx.tokens
    /\ lex_status' = lx.status
    /\ lex_error' = lx.error
    /\ UNCHANGED <<lebVars, genVars, execVars, parseVars, compileVars, decodeVars, cacheVars>>

MaxSourceLen == 4
SourceChars == {"a", "1", " ", "\n", "/", "=", "\"", "%", "@", "."}
Sources == SeqsUpTo(SourceChars, MaxSourceLen)

\* tokenize(source) is called: init(source), tokens = []
Tokenize(src) ==
    /\ lex_status = "new"
    /\ LexerBecomes(lexer_init(src))

TokenizeSkipWhitespace ==
    /\ lex_status = "running"
    /\ tokenize_branch(current_char) = "skip_whitespace"
    /\ LexerBecomes(tokenize_step(Lexer))

TokenizeNumber ==
    /\ lex_status = "running"
    /\ tokenize_branch(current_char) = "number"
    /\ LexerBecomes(tokenize_step(Lexer))

TokenizeIdentifier ==
    /\ lex_status = "running"
    /\ tokenize_branch(current_char) = "identifier"
    /\ LexerBecomes(tokenize_step(Lexer))

TokenizeStringLiteral ==
    /\ lex_status = "running"
    /\ tokenize_branch(current_char) = "string_literal"
    /\ LexerBecomes(tokenize_step(Lexer))

TokenizeOperator ==
    /\ lex_status = "running"
    /\ tokenize_branch(current_char) = "operator"
    /\ LexerBecomes(tokenize_step(Lexer))

TokenizeReturn ==
    /\ lex_status = "running"
    /\ tokenize_branch(current_char) = "return"
    /\ LexerBecomes(tokenize_step(Lexer))

LexNext ==
    \/ lex_status = "new" /\ \E src \in Sources : Tokenize(src)
    \/ TokenizeSkipWhitespace
    \/ TokenizeNumber
    \/ TokenizeIdentifier
    \/ TokenizeStringLiteral
    \/ TokenizeOperator
    \/ TokenizeReturn

(***************************************************************************)
(* Execution of emitted code.  The instruction stream of a function is     *)
(* what generate_function_body puts after the locals vector; it is run by  *)
(* the WebAssembly rules for the instructions the generator emits (their   *)
(* opcodes and immediates are those of WASM_INSTRUCTIONS).  Values stay    *)
(* far inside the i32 range for the arguments drawn here, so i32           *)
(* arithmetic never wraps.                                                 *)
(***************************************************************************)
\* the code generate_function_body builds for func: statements, then END
function_code(func, p) ==
    Then(generate_statements(func.body.statements,
             collect_locals(func.body.statements, p.local_vars,
                            p.next_local_index, 0).local_vars),
         Ok(<<END>>))

\* number of locals of the frame: parameters and collected Lets
frame_size(func, p) ==
    collect_locals(func.body.statements, p.local_vars, p.next_local_index, 0)
        .next_local_index

\* the signed LEB128 immediate of i32.const at position i
RECURSIVE read_sleb128(_, _, _)
read_sleb128(code, i, shift) ==
    IF Bit7(code[i])
    THEN Low7(code[i]) * Pow2(shift) + read_sleb128(code, i + 1, shift + 7)
    ELSE IF Bit6(code[i])
    THEN Low7(code[i]) * Pow2(shift) - Pow2(shift + 7)
    ELSE Low7(code[i]) * Pow2(shift)

RECURSIVE leb128_length(_, _)
leb128_length(code, i) ==
    IF Bit7(code[i]) THEN 1 + leb128_length(code, i + 1) ELSE 1

\* bytes an instruction occupies: opcode and immediates
instruction_length(code, i) ==
    IF code[i] \in {BLOCK, LOOP, IF_OP, BR, BR_IF, LOCAL_GET, LOCAL_SET} THEN 2
    ELSE IF code[i] = I32_CONST THEN 1 + leb128_length(code, i + 1)
    ELSE 1

\* position of the END that closes the block entered before position i
RECURSIVE matching_end(_, _, _)
matching_end(code, i, depth) ==
    IF code[i] = END
    THEN IF depth = 0 THEN i ELSE matching_end(code, i + 1, depth - 1)
    ELSE IF code[i] \in {BLOCK, LOOP, IF_OP}
    THEN matching_end(code, i + 2, depth + 1)
    ELSE matching_end(code, i + instruction_length(code, i), depth)

NoBranch == [op |-> "none", cond |-> 0, taken |-> FALSE]

Machine ==
    [code |-> x_code, pc |-> x_pc, stack |-> x_stack, locals |-> x_locals,
     labels |-> x_labels, status |-> x_status, result |-> x_result, last |-> x_last]

Pop(stack, n) == SubSeq(stack, 1, Len(stack) - n)
Top(stack, k) == stack[Len(stack) - k]

\* return from the function: the result is the top of the operand stack
return_from(m) ==
    IF m.stack = <<>>
    THEN [m EXCEPT !.status = "trapped"]
    ELSE [m EXCEPT !.status = "returned", !.result = Top(m.stack, 0)]

\* br l: leave l+1 labels; a block label continues after its end, a loop
\* label at its start
branch(m, l) ==
    IF l >= Len(m.labels) THEN return_from(m)
    ELSE [m EXCEPT !.pc = m.labels[Len(m.labels) - l].continuation,
                   !.labels = SubSeq(m.labels, 1, Len(m.labels) - l - 1)]

\* i32 binary operators the generator's table names
binary(op, a, b) ==
    CASE op = I32_ADD -> a + b
      [] op = I32_SUB -> a - b
      [] op = I32_MUL -> a * b
      [] op = I32_LT -> IF a < b THEN 1 ELSE 0
      [] op = I32_GT -> IF a > b THEN 1 ELSE 0
      [] op = I32_EQ -> IF a = b THEN 1 ELSE 0

BinaryOpcodes == {I32_ADD, I32_SUB, I32_MUL, I32_LT, I32_GT, I32_EQ}

\* one instruction of the machine
execute(m) ==
    LET op == m.code[m.pc]
        quiet == [m EXCEPT !.last = NoBranch]
    IN  CASE op = BLOCK ->
               [quiet EXCEPT !.pc = m.pc + 2,
                   !.labels = Append(m.labels,
                       [kind |-> "block",
                        continuation |-> matching_end(m.code, m.pc + 2, 0) + 1])]
          [] op = LOOP ->
               [quiet EXCEPT !.pc = m.pc + 2,
                   !.labels = Append(m.labels,
                       [kind |-> "loop", continuation |-> m.pc])]
          [] op = END ->
               IF m.labels = <<>> THEN return_from(quiet)
               ELSE [quiet EXCEPT !.pc = m.pc + 1, !.labels = Pop(m.labels, 1)]
          [] op = BR -> branch(quiet, m.code[m.pc + 1])
          [] op = BR_IF ->
               IF Top(m.stack, 0) # 0
               THEN branch([m EXCEPT !.stack = Pop(m.stack, 1),
                                     !.last = [op |-> "br_if", cond |-> Top(m.stack, 0),
                                               taken |-> TRUE]],
                           m.code[m.pc + 1])
               ELSE [m EXCEPT !.stack = Pop(m.stack, 1), !.pc = m.pc + 2,
                              !.last = [op |-> "br_if", cond |-> 0, taken |-> FALSE]]
          [] op = I32_CONST ->
               [quiet EXCEPT !.pc = m.pc + instruction_length(m.code, m.pc),
                             !.stack = Append(m.stack, read_sleb128(m.code, m.pc + 1, 0))]
          [] op = LOCAL_GET ->
               [quiet EXCEPT !.pc = m.pc + 2,
                             !.stack = Append(m.stack, m.locals[m.code[m.pc + 1] + 1])]
          [] op = LOCAL_SET ->
               [quiet EXCEPT !.pc = m.pc + 2,
                             !.stack = Pop(m.stack, 1),
                             !.locals[m.code[m.pc + 1] + 1] = Top(m.stack, 0)]
          [] op \in BinaryOpcodes ->
               [quiet EXCEPT !.pc = m.pc + 1,
                             !.stack = Append(Pop(m.stack, 2),
                                              binary(op, Top(m.stack, 1), Top(m.stack, 0)))]
          [] OTHER -> [quiet EXCEPT !.status = "trapped"]

ExecIdle ==
    /\ x_func = NoBlock
    /\ x_arg = 0
    /\ x_code = <<>>
    /\ x_pc = 1
    /\ x_stack = <<>>
    /\ x_locals = <<>>
    /\ x_labels = <<>>
    /\ x_status = "idle"
    /\ x_result = 0
    /\ x_last = NoBranch

MachineBecomes(m) ==
    /\ x_code' = m.code
    /\ x_pc' = m.pc
    /\ x_stack' = m.stack
    /\ x_locals' = m.locals
    /\ x_labels' = m.labels
    /\ x_status' = m.status
    /\ x_result' = m.result
    /\ x_last' = m.last
    /\ UNCHANGED <<x_func, x_arg>>
    /\ UNCHANGED <<lebVars, genVars, lexVars, parseVars, compileVars, decodeVars, cacheVars>>

MaxArg == 10

\* h(n) { while (n) { n -= 1; } return n; }
CountDown ==
    Function(N_f, <<Parameter(N_n, T_i32)>>, T_i32,
        Block(<<WhileStatement(Identifier(N_n),
                    Block(<<AssignStatement(N_n, <<"-", "=">>, NumberLiteral(1))>>)),
                ReturnStatement(Identifier(N_n))>>))

WhileFunctions == {SumDown, CountDown}

\* f(n) { free(p); return n; } for a pointer expression p
FreePointers == {Identifier(N_n), NumberLiteral(4), SizeofExpression(T_i64)}
FreeFunctions ==
    { Function(N_f, <<Parameter(N_n, T_i32)>>, T_i32,
          Block(<<FreeStatement(ptr), ReturnStatement(Identifier(N_n))>>)) :
      ptr \in FreePointers }

\* the function's code is generated and called with one argument
Call(func, arg) ==
    /\ x_status = "idle"
    /\ function_code(func, bind_params(func.params, EmptyDict, 0)).err = "none"
    /\ x_func' = func
    /\ x_arg' = arg
    /\ x_code' = function_code(func, bind_params(func.params, EmptyDict, 0)).v
    /\ x_pc' = 1
    /\ x_stack' = <<>>
    /\ x_locals' = [k \in 1..frame_size(func, bind_params(func.params, EmptyDict, 0)) |->
                       IF k = 1 THEN arg ELSE 0]
    /\ x_labels' = <<>>
    /\ x_status' = "running"
    /\ UNCHANGED <<x_result, x_last>>
    /\ UNCHANGED <<lebVars, genVars, lexVars, parseVars, compileVars, decodeVars, cacheVars>>

ExecuteBlock ==
    /\ x_status = "running"
    /\ x_code[x_pc] = BLOCK
    /\ MachineBecomes(execute(Machine))

ExecuteLoop ==
    /\ x_status = "running"
    /\ x_code[x_pc] = LOOP
    /\ MachineBecomes(execute(Machine))

ExecuteEnd ==
    /\ x_status = "running"
    /\ x_code[x_pc] = END
    /\ MachineBecomes(execute(Machine))

ExecuteBr ==
    /\ x_status = "running"
    /\ x_code[x_pc] = BR
    /\ MachineBecomes(execute(Machine))

ExecuteBrIf ==
    /\ x_status = "running"
    /\ x_code[x_pc] = BR_IF
    /\ MachineBecomes(execute(Machine))

ExecuteConst ==
    /\ x_status = "running"
    /\ x_code[x_pc] = I32_CONST
    /\ MachineBecomes(execute(Machine))

ExecuteLocalGet ==
    /\ x_status = "running"
    /\ x_code[x_pc] = LOCAL_GET
    /\ MachineBecomes(execute(Machine))

ExecuteLocalSet ==
    /\ x_status = "running"
    /\ x_code[x_pc] = LOCAL_SET
    /\ MachineBecomes(execute(Machine))

ExecuteBinary ==
    /\ x_status = "running"
    /\ x_code[x_pc] \in BinaryOpcodes
    /\ MachineBecomes(execute(Machine))

ExecNext ==
    \/ x_status = "idle" /\ \E func \in WhileFunctions \cup FreeFunctions, arg \in 0..MaxArg :
                 Call(func, arg)
    \/ ExecuteBlock
    \/ ExecuteLoop
    \/ ExecuteEnd
    \/ ExecuteBr
    \/ ExecuteBrIf
    \/ ExecuteConst
    \/ ExecuteLocalGet
    \/ ExecuteLocalSet
    \/ ExecuteBinary

(***************************************************************************)
(* Parser (parser.py).  A parse method takes the token list and the state  *)
(* r the parser is in: self.current, the nodes and token values built so   *)
(* far and not yet placed in a parent node (the local variables of the     *)
(* methods on the call stack), and the SyntaxError raised, if any.  Once   *)
(* an error is raised every later step leaves r as it is.                  *)
(***************************************************************************)
StringLength(string) == [kind |-> "StringLength", string |-> string]
StringConcat(left, right) == [kind |-> "StringConcat", left |-> left, right |-> right]
Substring(string, start, length) ==
    [kind |-> "Substring", string |-> string, start |-> start, length |-> length]
Program(fns) == [kind |-> "Program", functions |-> fns]

NoParseError == [type |-> "none", expected |-> "", got |-> ""]
parser_init == [current |-> 0, nodes |-> <<>>, error |-> NoParseError]
Failed(r) == r.error # NoParseError

\* Parser.peek, Parser.previous, Parser.is_at_end, Parser.check
parser_peek(toks, r) == toks[r.current + 1]
previous(toks, r) == IF r.current = 0 THEN toks[Len(toks)] ELSE toks[r.current]
is_at_end(toks, r) == parser_peek(toks, r).type = "EOF"
check(toks, r, type) == ~is_at_end(toks, r) /\ parser_peek(toks, r).type = type

\* Parser.advance
parser_advance(toks, r) ==
    IF is_at_end(toks, r) THEN r ELSE [r EXCEPT !.current = @ + 1]

\* Parser.consume
consume(toks, r, type) ==
    IF Failed(r) THEN r
    ELSE IF check(toks, r, type) THEN parser_advance(toks, r)
    ELSE [r EXCEPT !.error = [type |-> "SyntaxError", expected |-> type,
                              got |-> parser_peek(toks, r).type]]

\* x = self.consume(type, ...).value
consume_value(toks, r, type) ==
    IF Failed(r) \/ ~check(toks, r, type) THEN consume(toks, r, type)
    ELSE [parser_advance(toks, r) EXCEPT !.nodes = Append(@, parser_peek(toks, r).value)]

\* the last n nodes are placed in the node a method returns
Top1(r) == r.nodes[Len(r.nodes)]
Top2(r) == r.nodes[Len(r.nodes) - 1]
Top3(r) == r.nodes[Len(r.nodes) - 2]
Top4(r) == r.nodes[Len(r.nodes) - 3]
Return(r, n, node) ==
    IF Failed(r) THEN r
    ELSE [r EXCEPT !.nodes = Append(SubSeq(@, 1, Len(@) - n), node)]

\* the nodes the expression methods return
string_length(r) == Return(r, 1, StringLength(Top1(r)))
string_concat(r) == Return(r, 2, StringConcat(Top2(r), Top1(r)))
substring(r) == Return(r, 3, Substring(Top3(r), Top2(r), Top1(r)))
alloc_expression(r) == Return(r, 2, AllocExpression(Top2(r), Top1(r)))
sizeof_expression(r) == Return(r, 1, SizeofExpression(Top1(r)))
address_of_expression(r) == Return(r, 1, AddressOfExpression(Top1(r)))
dereference_expression(r) == Return(r, 1, DereferenceExpression(Top1(r)))

RECURSIVE expression(_, _)
RECURSIVE comparison(_, _)
RECURSIVE comparison_loop(_, _)
RECURSIVE addition(_, _)
RECURSIVE addition_loop(_, _)
RECURSIVE multiplication(_, _)
RECURSIVE multiplication_loop(_, _)
RECURSIVE primary(_, _)
RECURSIVE statement(_, _)
RECURSIVE block(_, _)
RECURSIVE block_loop(_, _, _)

\* BinaryOp(operator, expr, right) from the operator value and two operands
binary_op(r) == Return(r, 3, BinaryOp(Top2(r), Top3(r), Top1(r)))

\* Parser.primary
primary(toks, r) ==
    IF Failed(r) THEN r
    ELSE IF check(toks, r, "INTEGER") \/ check(toks, r, "FLOAT")
    THEN Return(parser_advance(toks, r), 0, FloatLiteral(parser_peek(toks, r).value))
    ELSE IF check(toks, r, "STRING")
    THEN Return(parser_advance(toks, r), 0, StringLiteral(parser_peek(toks, r).value))
    ELSE IF check(toks, r, "IDENTIFIER")
    THEN Return(parser_advance(toks, r), 0, Identifier(parser_peek(toks, r).value))
    ELSE IF check(toks, r, "LEN")
    THEN string_length(
             consume(toks, expression(toks,
                 consume(toks, parser_advance(toks, r), "LPAREN")), "RPAREN"))
    ELSE IF check(toks, r, "CONCAT")
    THEN string_concat(
             consume(toks, expression(toks,
                 consume(toks, expression(toks,
                     consume(toks, parser_advance(toks, r), "LPAREN")), "COMMA")),
                 "RPAREN"))
    ELSE IF check(toks, r, "SUBSTR")
    THEN substring(
             consume(toks, expression(toks,
                 consume(toks, expression(toks,
                     consume(toks, expression(toks,
                         consume(toks, parser_advance(toks, r), "LPAREN")), "COMMA")),
                     "COMMA")),
                 "RPAREN"))
    ELSE [r EXCEPT !.error = [type |-> "SyntaxError", expected |-> "expression",
                              got |-> parser_peek(toks, r).type]]

\* Parser.multiplication
multiplication_loop(toks, r) ==
    IF Failed(r) THEN r
    ELSE IF check(toks, r, "MULTIPLY") \/ check(toks, r, "DIVIDE")
    THEN multiplication_loop(toks,
             binary_op(primary(toks, consume_value(toks, r, parser_peek(toks, r).type))))
    ELSE r

multiplication(toks, r) == multiplication_loop(toks, primary(toks, r))

\* an addition whose right operand takes the rest of the operators of its
\* level: a - b - c read as a - (b - c)
addition_loop_right_associative(toks, r) ==
    IF Failed(r) THEN r
    ELSE IF check(toks, r, "PLUS") \/ check(toks, r, "MINUS")
    THEN binary_op(addition(toks, consume_value(toks, r, parser_peek(toks, r).type)))
    ELSE r

\* Parser.addition
addition_loop(toks, r) ==
    IF Failed(r) THEN r
    ELSE IF check(toks, r, "PLUS") \/ check(toks, r, "MINUS")
    THEN addition_loop(toks,
             binary_op(multiplication(toks,
                 consume_value(toks, r, parser_peek(toks, r).type))))
    ELSE r

addition(toks, r) == addition_loop(toks, multiplication(toks, r))

\* Parser.comparison
comparison_loop(toks, r) ==
    IF Failed(r) THEN r
    ELSE IF \E type \in {"LESS", "GREATER", "EQUALS", "LESS_EQUAL", "GREATER_EQUAL"} :
                check(toks, r, type)
    THEN comparison_loop(toks,
             binary_op(addition(toks, consume_value(toks, r, parser_peek(toks, r).type))))
    ELSE r

comparison(toks, r) == comparison_loop(toks, addition(toks, r))

\* Parser.expression with alloc_expression, sizeof_expression,
\* address_of_expression and dereference_expression
expression(toks, r) ==
    IF Failed(r) THEN r
    ELSE IF check(toks, r, "ALLOC")
    THEN alloc_expression(
             consume(toks, expression(toks,
                 consume(toks, consume_value(toks,
                     consume(toks, parser_advance(toks, r), "LPAREN"), "TYPE"), "COMMA")),
                 "RPAREN"))
    ELSE IF check(toks, r, "SIZEOF")
    THEN sizeof_expression(
             consume(toks, consume_value(toks,
                 consume(toks, parser_advance(toks, r), "LPAREN"), "TYPE"), "RPAREN"))
    ELSE IF check(toks, r, "ADDRESS_OF")
    THEN address_of_expression(expression(toks, parser_advance(toks, r)))
    ELSE IF check(toks, r, "DEREFERENCE")
    THEN dereference_expression(expression(toks, parser_advance(toks, r)))
    ELSE comparison(toks, r)

\* Parser.type_specifier; no method of the parser calls it
pointer_type(r) == Return(r, 1, <<"p", "t", "r", "<">> \o Top1(r) \o <<">">>)
type_specifier(toks, r) ==
    IF Failed(r) THEN r
    ELSE IF check(toks, r, "PTR")
    THEN pointer_type(
             consume(toks, consume_value(toks,
                 consume(toks, parser_advance(toks, r), "LESS"), "TYPE"), "GREATER"))
    ELSE consume_value(toks, r, "TYPE")

\* the nodes the statement methods return
LastN(r, n) == SubSeq(r.nodes, Len(r.nodes) - n + 1, Len(r.nodes))
return_node(r) == Return(r, 1, ReturnStatement(Top1(r)))
if_node(r) == Return(r, 2, IfStatement(Top2(r), Top1(r), NoBlock))
if_else_node(r) == Return(r, 3, IfStatement(Top3(r), Top2(r), Top1(r)))
while_node(r) == Return(r, 2, WhileStatement(Top2(r), Top1(r)))
let_node(r) == Return(r, 3, LetStatement(Top3(r), Top2(r), Top1(r)))
assign_node(r) == Return(r, 3, AssignStatement(Top3(r), Top2(r), Top1(r)))
free_node(r) == Return(r, 1, FreeStatement(Top1(r)))
parameter_node(r) == Return(r, 2, Parameter(Top2(r), Top1(r)))
function_node(r) == Return(r, 4, Function(Top4(r), Top3(r), Top2(r), Top1(r)))

\* Parser.return_statement, after match('RETURN')
return_statement(toks, r) ==
    return_node(consume(toks, expression(toks, r), "SEMICOLON"))

\* Parser.if_statement, after match('IF')
if_else(toks, r) ==
    IF Failed(r) THEN r
    ELSE IF check(toks, r, "ELSE")
    THEN if_else_node(
             consume(toks, block(toks,
                 consume(toks, parser_advance(toks, r), "LBRACE")), "RBRACE"))
    ELSE if_node(r)

if_statement(toks, r) ==
    if_else(toks,
        consume(toks, block(toks,
            consume(toks, consume(toks, expression(toks,
                consume(toks, r, "LPAREN")), "RPAREN"), "LBRACE")), "RBRACE"))

\* Parser.while_statement, after match('WHILE')
while_statement(toks, r) ==
    while_node(
        consume(toks, block(toks,
            consume(toks, consume(toks, expression(toks,
                consume(toks, r, "LPAREN")), "RPAREN"), "LBRACE")), "RBRACE"))

\* Parser.let_statement, after match('LET')
let_statement(toks, r) ==
    let_node(
        consume(toks, expression(toks,
            consume(toks, consume_value(toks,
                consume(toks, consume_value(toks, r, "IDENTIFIER"), "COLON"),
                "TYPE"), "ASSIGN")), "SEMICOLON"))

\* Parser.assignment_statement: the name is the value of the token before
\* the current one, and the current token is still the identifier
assignment_operator(toks, r) ==
    IF \E type \in {"PLUS_ASSIGN", "MINUS_ASSIGN", "MULTIPLY_ASSIGN", "DIVIDE_ASSIGN"} :
           check(toks, r, type)
    THEN consume_value(toks, r, parser_peek(toks, r).type)
    ELSE Return(consume(toks, r, "ASSIGN"), 0, <<"=">>)

assignment_statement(toks, r) ==
    assign_node(
        consume(toks, expression(toks,
            assignment_operator(toks, Return(r, 0, previous(toks, r).value))),
            "SEMICOLON"))

\* Parser.free_statement, after match('FREE')
free_statement(toks, r) ==
    free_node(
        consume(toks, consume(toks, expression(toks,
            consume(toks, r, "LPAREN")), "RPAREN"), "SEMICOLON"))

\* Parser.statement
statement(toks, r) ==
    IF Failed(r) THEN r
    ELSE IF check(toks, r, "RETURN") THEN return_statement(toks, parser_advance(toks, r))
    ELSE IF check(toks, r, "IF") THEN if_statement(toks, parser_advance(toks, r))
    ELSE IF check(toks, r, "WHILE") THEN while_statement(toks, parser_advance(toks, r))
    ELSE IF check(toks, r, "LET") THEN let_statement(toks, parser_advance(toks, r))
    ELSE IF check(toks, r, "FREE") THEN free_statement(toks, parser_advance(toks, r))
    ELSE IF check(toks, r, "IDENTIFIER") THEN assignment_statement(toks, r)
    ELSE expression(toks, r)

\* Parser.block: n statements are collected so far
block_loop(toks, r, n) ==
    IF Failed(r) THEN r
    ELSE IF ~check(toks, r, "RBRACE") /\ ~is_at_end(toks, r)
    THEN block_loop(toks, statement(toks, r), n + 1)
    ELSE Return(r, n, Block(LastN(r, n)))

block(toks, r) == block_loop(toks, r, 0)

\* Parser.parameters: n parameters are collected so far
RECURSIVE parameters_loop(_, _, _)
parameters_loop(toks, r, n) ==
    IF Failed(r) THEN r
    ELSE IF check(toks, r, "COMMA")
    THEN parameters_loop(toks,
             parameter_node(consume_value(toks,
                 consume(toks, consume_value(toks, parser_advance(toks, r),
                     "IDENTIFIER"), "COLON"), "TYPE")), n + 1)
    ELSE Return(r, n, LastN(r, n))

parameters(toks, r) ==
    parameters_loop(toks,
        parameter_node(consume_value(toks,
            consume(toks, consume_value(toks, r, "IDENTIFIER"), "COLON"), "TYPE")), 1)

\* Parser.function
function_parameters(toks, r) ==
    IF Failed(r) THEN r
    ELSE IF ~check(toks, r, "RPAREN") THEN parameters(toks, r)
    ELSE Return(r, 0, <<>>)

function(toks, r) ==
    function_node(
        consume(toks, block(toks,
            consume(toks, consume_value(toks,
                consume(toks, consume(toks, function_parameters(toks,
                    consume(toks, consume_value(toks,
                        consume(toks, r, "FUNCTION"), "IDENTIFIER"), "LPAREN")),
                    "RPAREN"), "ARROW"), "TYPE"), "LBRACE")), "RBRACE"))

\* Parser.parse
RECURSIVE parse_loop(_, _)
parse_loop(toks, r) ==
    IF Failed(r) THEN r
    ELSE IF ~is_at_end(toks, r) THEN parse_loop(toks, function(toks, r))
    ELSE Return(r, Len(r.nodes), Program(r.nodes))

parse(toks) == parse_loop(toks, parser_init)

(***************************************************************************)
(* Token lists handed to the parser.  A program is written as its words;   *)
(* each word becomes the token the lexer's tables give it.                 *)
(***************************************************************************)
W_func == <<"f", "u", "n", "c">>
W_return == <<"r", "e", "t", "u", "r", "n">>
W_if == <<"i", "f">>
W_i32 == <<"i", "3", "2">>

TokenOf(word, col) ==
    IF word \in OPERATOR_KEYS THEN Token(OPERATORS(word), word, 1, col)
    ELSE IF \A i \in 1..Len(word) : isdigit(word[i]) THEN Token("INTEGER", int(word), 1, col)
    ELSE Token(KEYWORDS(word), word, 1, col)

TokensOf(words) ==
    [i \in 1..Len(words) + 1 |->
        IF i <= Len(words) THEN TokenOf(words[i], i) ELSE Token("EOF", <<>>, 1, i)]

\* func f() -> i32 { <body> }
InFunction(body) ==
    <<W_func, N_f, <<"(">>, <<")">>, <<"-", ">">>, W_i32, <<"{">>>> \o body \o <<<<"}">>>>

\* operand (operator operand)*: the operands are a, 2, b, 4 from left to right
MaxOps == 3
BinaryOperators ==
    { <<"*">>, <<"/">>, <<"+">>, <<"-">>, <<"<">>, <<">">>, <<"=", "=">>,
      <<"<", "=">>, <<">", "=">> }
OperandWord(i) == CASE i = 1 -> N_a [] i = 2 -> <<"2">> [] i = 3 -> N_b [] OTHER -> <<"4">>
ExpressionWords(ops) ==
    [i \in 1..2 * Len(ops) + 1 |->
        IF i % 2 = 1 THEN OperandWord((i + 1) \div 2) ELSE ops[i \div 2]]
ReturnProgram(ops) == InFunction(<<W_return>> \o ExpressionWords(ops) \o <<<<";">>>>)
ReturnPrograms == { ReturnProgram(ops) : ops \in SeqsUpTo(BinaryOperators, MaxOps) }

\* func f() -> i32 { x <op> <value> ; }
AssignOperators == { <<"=">>, <<"+", "=">>, <<"-", "=">>, <<"*", "=">>, <<"/", "=">> }
AssignValues == SeqsUpTo({<<"+">>, <<"*">>}, 1)
AssignProgram(op, ops) == InFunction(<<N_x, op>> \o ExpressionWords(ops) \o <<<<";">>>>)
AssignPrograms == { AssignProgram(op, ops) : op \in AssignOperators, ops \in AssignValues }

\* func f(a: i32) -> i32 { if (a) { return 2; } return a; }  and the same
\* program with the words of one construct left out
WellFormed ==
    <<W_func, N_f, <<"(">>, N_a, <<":">>, W_i32, <<")">>, <<"-", ">">>, W_i32, <<"{">>,
      W_if, <<"(">>, N_a, <<")">>, <<"{">>, W_return, <<"2">>, <<";">>, <<"}">>,
      W_return, N_a, <<";">>, <<"}">>>>
RECURSIVE WithoutFrom(_, _, _)
WithoutFrom(words, S, i) ==
    IF i > Len(words) THEN <<>>
    ELSE (IF i \in S THEN <<>> ELSE <<words[i]>>) \o WithoutFrom(words, S, i + 1)
Without(words, S) == WithoutFrom(words, S, 1)
\* func f() -> i32 { 2 ; }
ExpressionStatement == InFunction(<<<<"2">>, <<";">>>>)
Defects ==
    { [name |-> "no return type", of |-> WellFormed, words |-> {8, 9}],
      [name |-> "no parameter type", of |-> WellFormed, words |-> {5, 6}],
      [name |-> "no semicolon after return", of |-> WellFormed, words |-> {18}],
      [name |-> "no semicolon after return", of |-> WellFormed, words |-> {22}],
      [name |-> "no parentheses", of |-> WellFormed, words |-> {12, 14}],
      [name |-> "no parentheses", of |-> WellFormed, words |-> {12}],
      [name |-> "no semicolon after expression", of |-> ExpressionStatement, words |-> {9}] }
DefectProgram(d) == Without(d.of, d.words)
DefectPrograms == { DefectProgram(d) : d \in Defects }

\* programs with the pointer type ptr<i32> in one type position
W_ptr == <<"p", "t", "r">>
W_let == <<"l", "e", "t">>
W_alloc == <<"a", "l", "l", "o", "c">>
W_sizeof == <<"s", "i", "z", "e", "o", "f">>
PtrType == <<W_ptr, <<"<">>, W_i32, <<">">>>>
TypePositions == {"parameter", "return", "let", "alloc", "sizeof"}
PtrProgram(position) ==
    CASE position = "parameter" ->
            <<W_func, N_f, <<"(">>, N_a, <<":">>>> \o PtrType
            \o <<<<")">>, <<"-", ">">>, W_i32, <<"{">>, W_return, <<"0">>, <<";">>, <<"}">>>>
      [] position = "return" ->
            <<W_func, N_f, <<"(">>, <<")">>, <<"-", ">">>>> \o PtrType
            \o <<<<"{">>, W_return, <<"0">>, <<";">>, <<"}">>>>
      [] position = "let" ->
            InFunction(<<W_let, N_x, <<":">>>> \o PtrType \o <<<<"=">>, <<"0">>, <<";">>>>)
      [] position = "alloc" ->
            InFunction(<<W_return, W_alloc, <<"(">>>> \o PtrType
                       \o <<<<",">>, <<"1">>, <<")">>, <<";">>>>)
      [] position = "sizeof" ->
            InFunction(<<W_return, W_sizeof, <<"(">>>> \o PtrType \o <<<<")">>, <<";">>>>)
PtrPrograms == { PtrProgram(position) : position \in TypePositions }

\* func f(a: i32, b: i32) -> i32 { let x: i32 = 1; while (a) { free(a); }
\*   return a + x * 2; }  func g() -> i32 { }
W_while == <<"w", "h", "i", "l", "e">>
W_free == <<"f", "r", "e", "e">>
TwoFunctions ==
    <<W_func, N_f, <<"(">>, N_a, <<":">>, W_i32, <<",">>, N_b, <<":">>, W_i32, <<")">>,
      <<"-", ">">>, W_i32, <<"{">>,
      W_let, N_x, <<":">>, W_i32, <<"=">>, <<"1">>, <<";">>,
      W_while, <<"(">>, N_a, <<")">>, <<"{">>, W_free, <<"(">>, N_a, <<")">>, <<";">>, <<"}">>,
      W_return, N_a, <<"+">>, N_x, <<"*">>, <<"2">>, <<";">>, <<"}">>,
      W_func, N_g, <<"(">>, <<")">>, <<"-", ">">>, W_i32, <<"{">>, <<"}">>>>
\* every token list that is the beginning of a program
Prefixes(words) == { SubSeq(words, 1, k) : k \in 0..Len(words) }

ParserInputs ==
    { TokensOf(words) :
        words \in ReturnPrograms \cup AssignPrograms \cup DefectPrograms \cup PtrPrograms
                  \cup Prefixes(WellFormed) \cup Prefixes(TwoFunctions) }

(***************************************************************************)
(* The parser as a state machine: Parser(tokens), then one step per        *)
(* iteration of parse's loop, then the return of the Program.              *)
(***************************************************************************)
ParseIdle ==
    /\ p_tokens = <<>>
    /\ p_current = 0
    /\ p_functions = <<>>
    /\ p_status = "new"
    /\ p_error = NoParseError
    /\ p_program = NoBlock

\* Parser.__init__ and the entry of parse
ParserNew(toks) ==
    /\ p_status = "new"
    /\ p_tokens' = toks
    /\ p_current' = 0
    /\ p_functions' = <<>>
    /\ p_status' = "running"
    /\ UNCHANGED <<p_error, p_program>>
    /\ UNCHANGED <<lebVars, genVars, lexVars, execVars, compileVars, decodeVars, cacheVars>>

ParserState == [current |-> p_current, nodes |-> p_functions, error |-> NoParseError]

\* an iteration that leaves the cursor where it was
ParseFunctionStepStays(r) ==
    /\ p_current' = p_current
    /\ p_error' = r.error
    /\ IF Failed(r)
       THEN p_status' = "raised" /\ UNCHANGED p_functions
       ELSE p_functions' = r.nodes /\ UNCHANGED p_status
    /\ UNCHANGED <<p_tokens, p_program>>
    /\ UNCHANGED <<lebVars, genVars, lexVars, execVars, compileVars, decodeVars, cacheVars>>

\* functions.append(self.function()), or the SyntaxError function raises
ParseFunctionStep(r) ==
    /\ p_current' = r.current
    /\ p_error' = r.error
    /\ IF Failed(r)
       THEN p_status' = "raised" /\ UNCHANGED p_functions
       ELSE p_functions' = r.nodes /\ UNCHANGED p_status
    /\ UNCHANGED <<p_tokens, p_program>>
    /\ UNCHANGED <<lebVars, genVars, lexVars, execVars, compileVars, decodeVars, cacheVars>>

ParseFunction ==
    /\ p_status = "running"
    /\ ~is_at_end(p_tokens, ParserState)
    /\ ParseFunctionStep(function(p_tokens, ParserState))

\* return Program(functions)
ParseReturn ==
    /\ p_status = "running"
    /\ is_at_end(p_tokens, ParserState)
    /\ p_program' = Program(p_functions)
    /\ p_status' = "returned"
    /\ UNCHANGED <<p_tokens, p_current, p_functions, p_error>>
    /\ UNCHANGED <<lebVars, genVars, lexVars, execVars, compileVars, decodeVars, cacheVars>>

ParseNext ==
    \/ p_status = "new" /\ \E toks \in ParserInputs : ParserNew(toks)
    \/ ParseFunction
    \/ ParseReturn

(***************************************************************************)
(* The compile entry point (compiler.py).  compile does not read its       *)
(* argument: it returns the bytes of one hand-assembled module.  Importing *)
(* the module evaluates the annotation List[Function] of                   *)
(* WASMSections.type_section, a name compiler.py never defines: the import *)
(* raises NameError where annotations are evaluated at definition and      *)
(* succeeds where they are evaluated lazily, so both outcomes are taken.   *)
(***************************************************************************)
compile(src) ==
    Ok(<<0, 97, 115, 109, 1, 0, 0, 0,
         1, 7, 1, 96, 2, 127, 127, 1, 127,
         3, 2, 1, 0,
         7, 7, 1, 3, 97, 100, 100, 0, 0,
         10, 9, 1, 7, 0, 32, 0, 32, 1, 106, 11>>)

\* compile_source of tests/test_generator.py: the three stages composed
generate_parsed(r) ==
    IF Failed(r) THEN Raise(r.error.type)
    ELSE generate(Top1(r), EmptyDict, EmptyDict, 0, 0).res

parse_tokenized(lx) ==
    IF lx.status = "raised" THEN Raise(lx.error.type)
    ELSE generate_parsed(parse(lx.tokens))

compile_source(src) == parse_tokenized(tokenize(src))

CompileIdle ==
    /\ c_source = <<>>
    /\ c_status = "new"
    /\ c_result = NotRun

Compile(src) ==
    /\ c_status = "new"
    /\ c_source' = src
    /\ c_result' = compile(src)
    /\ c_status' = "returned"
    /\ UNCHANGED <<lebVars, genVars, lexVars, execVars, parseVars, decodeVars, cacheVars>>

CompileImportRaises(src) ==
    /\ c_status = "new"
    /\ c_source' = src
    /\ c_result' = Raise("NameError")
    /\ c_status' = "raised"
    /\ UNCHANGED <<lebVars, genVars, lexVars, execVars, parseVars, decodeVars, cacheVars>>

CompileNext ==
    \/ c_status = "new" /\ \E src \in Sources : Compile(src)
    \/ c_status = "new" /\ \E src \in Sources : CompileImportRaises(src)

(***************************************************************************)
(* WASMDecoder (decoder.py).  self.position is set in __init__ only.       *)
(* Every module below starts with the preamble byte 0x00, which            *)
(* _decode_section reads as a section id, and is shorter than the 99 bytes *)
(* the following size byte 0x61 asks for, so the decoders of the sections  *)
(* 1, 3, 7 and 10 are not entered; their outcome is left open.             *)
(***************************************************************************)
HexDigit(n) ==
    CASE n = 0 -> "0" [] n = 1 -> "1" [] n = 2 -> "2" [] n = 3 -> "3"
      [] n = 4 -> "4" [] n = 5 -> "5" [] n = 6 -> "6" [] n = 7 -> "7"
      [] n = 8 -> "8" [] n = 9 -> "9" [] n = 10 -> "a" [] n = 11 -> "b"
      [] n = 12 -> "c" [] n = 13 -> "d" [] n = 14 -> "e" [] OTHER -> "f"

\* bytes.hex
hex(content) ==
    Concat([i \in 1..Len(content) |->
               <<HexDigit(content[i] \div 16), HexDigit(content[i] % 16)>>])

\* data[from:to] of Python, from and to counted from 0
Slice(data, from, to) ==
    SubSeq(data, from + 1, IF to > Len(data) THEN Len(data) ELSE to)

TypedSections == {1, 3, 7, 10}
decode_unknown_section(content) == [raw |-> hex(content)]
decode_section_content(section_id, content) ==
    IF section_id \in TypedSections
    THEN [typed |-> content]
    ELSE decode_unknown_section(content)

\* WASMDecoder._decode_section at self.position = position
decode_section_sized(data, position, size) ==
    IF size.err # "none"
    THEN [err |-> size.err, position |-> position + 1, section |-> <<>>]
    ELSE [err |-> "none",
          position |-> position + 1 + size.bytes_read + size.result,
          section |-> <<[id |-> data[position + 1],
                         size |-> size.result,
                         content |-> decode_section_content(data[position + 1],
                             Slice(data, position + 1 + size.bytes_read,
                                   position + 1 + size.bytes_read + size.result))]>>]

decode_section(data, position) ==
    decode_section_sized(data, position,
                         decode_leb128(Slice(data, position + 1, Len(data))))

\* the modules handed to the decoder: the one generate emits (for the
\* program without functions), the one compile returns, and the sections
\* of k functions  func <name>() -> i32 { return <value>; }  framed as the
\* generator frames sections
ModuleFunctions == { [name |-> n, value |-> v] : n \in {N_f, N_g}, v \in {0, 1, 42} }
SectionsOf(fns) ==
    Preamble
    \o encode_section(TYPE_SECTION,
           <<Len(fns)>> \o Concat([i \in 1..Len(fns) |-> <<FUNC_TYPE, 0, 1, I32_TYPE>>]))
    \o encode_section(FUNCTION_SECTION, <<Len(fns)>> \o [i \in 1..Len(fns) |-> i - 1])
    \o encode_section(MEMORY_SECTION, <<1, 1, 1, 1>>)
    \o encode_section(EXPORT_SECTION,
           <<Len(fns)>> \o Concat([i \in 1..Len(fns) |->
               <<Len(fns[i].name)>> \o encode_utf8(fns[i].name) \o <<0, i - 1>>]))
    \o encode_section(CODE_SECTION,
           <<Len(fns)>> \o Concat([i \in 1..Len(fns) |->
               <<4, 0, I32_CONST, fns[i].value, END>>]))
EmittedModules ==
    { generate([functions |-> <<>>], EmptyDict, EmptyDict, 0, 0).res.v, compile(<<>>).v }
    \cup { SectionsOf(fns) : fns \in SeqsUpTo(ModuleFunctions, MaxFuncs) }

MaxCalls == 2

DecodeIdle ==
    /\ d_position = 0
    /\ d_data = <<>>
    /\ d_sections = <<>>
    /\ d_status = "new"
    /\ d_error = "none"
    /\ d_calls = 0
    /\ d_previous = [data |-> <<>>, status |-> "new", sections |-> <<>>]

\* decode_sections(data) is called: sections = []
DecodeSections(data) ==
    /\ d_status \in {"new", "returned", "raised"}
    /\ d_calls < MaxCalls
    /\ d_data' = data
    /\ d_sections' = <<>>
    /\ d_status' = "running"
    /\ d_error' = "none"
    /\ d_calls' = d_calls + 1
    /\ d_previous' = [data |-> d_data, status |-> d_status, sections |-> d_sections]
    /\ UNCHANGED d_position
    /\ UNCHANGED <<lebVars, genVars, lexVars, execVars, parseVars, compileVars, cacheVars>>

\* one iteration of the loop: sections.append(self._decode_section(data))
DecodeSectionStep(d) ==
    /\ d_position' = d.position
    /\ d_error' = d.err
    /\ d_sections' = d_sections \o d.section
    /\ d_status' = IF d.err # "none" THEN "raised" ELSE "running"
    /\ UNCHANGED <<d_data, d_calls, d_previous>>
    /\ UNCHANGED <<lebVars, genVars, lexVars, execVars, parseVars, compileVars, cacheVars>>

DecodeSection ==
    /\ d_status = "running"
    /\ d_position < Len(d_data)
    /\ DecodeSectionStep(decode_section(d_data, d_position))

\* return sections
DecodeSectionsReturn ==
    /\ d_status = "running"
    /\ d_position >= Len(d_data)
    /\ d_status' = "returned"
    /\ UNCHANGED <<d_position, d_data, d_sections, d_error, d_calls, d_previous>>
    /\ UNCHANGED <<lebVars, genVars, lexVars, execVars, parseVars, compileVars, cacheVars>>

DecodeNext ==
    \/ (d_status \in {"new", "returned", "raised"} /\ d_calls < MaxCalls)
          /\ \E data \in EmittedModules : DecodeSections(data)
    \/ DecodeSection
    \/ DecodeSectionsReturn

(***************************************************************************)
(* WASMCache (wasm_cache.py).  A cache key is the SHA-256 of the source's  *)
(* content and mtime, kept here as the pair it is computed from.  A Module *)
(* is known by its binary, an Instance by the order of its creation.       *)
(* Time is counted in days.                                                *)
(***************************************************************************)
NoFile == [content |-> "None", mtime |-> 0]
NoBinary == "None"
NoInstance == [id |-> 0, binary |-> "None"]
EXPIRES_DAYS == 7

Paths == {"p", "q"}
Contents == {"c1", "c2"}
Binaries == {"B1", "B2", "bad"}

\* what the compiler emits for a source
CompilerOutput(content) == IF content = "c1" THEN "B1" ELSE "B2"

\* Module(store.engine, binary) raises for bytes that are no module
Module(wasm_binary) == IF wasm_binary = "bad" THEN Raise("Error") ELSE Ok(wasm_binary)
Instance(id, module) == [id |-> id, binary |-> module]

DictDel(d, key) == [k \in (DOMAIN d) \ {key} |-> d[k]]

\* the fields of the cache and its directory
Cache ==
    [binary_cache |-> binary_cache, module_cache |-> module_cache,
     instance_cache |-> instance_cache, metadata |-> metadata,
     cache_files |-> cache_files, metadata_file |-> metadata_file,
     next_instance |-> next_instance, result |-> NoInstance, err |-> "none"]

\* WASMCache._get_cache_key
get_cache_key(files, source_path) ==
    IF files[source_path] = NoFile THEN Raise("FileNotFoundError")
    ELSE Ok(<<files[source_path].content, files[source_path].mtime>>)

\* WASMCache._is_cache_valid
is_cache_valid(wc, key, t) ==
    IF key \notin DOMAIN wc.metadata THEN FALSE
    ELSE t < wc.metadata[key].expires

\* WASMCache._save_cache; the write of the binary or of metadata.pkl may
\* fail, and the exception is caught
SaveOutcomes == {"saved", "binary not written", "metadata not written"}
save_cache(wc, key, wasm_binary, t, outcome) ==
    IF outcome = "binary not written" THEN wc
    ELSE [wc EXCEPT
            !.cache_files = DictSet(@, key, wasm_binary),
            !.metadata = DictSet(@, key, [created |-> t, expires |-> t + EXPIRES_DAYS]),
            !.metadata_file =
                IF outcome = "saved"
                THEN DictSet(wc.metadata, key, [created |-> t, expires |-> t + EXPIRES_DAYS])
                ELSE EmptyDict]

\* WASMCache.get_instance: create and cache the instance
create_instance(wc, key) ==
    [wc EXCEPT !.instance_cache =
                   DictSet(@, key, Instance(wc.next_instance + 1, wc.module_cache[key])),
               !.next_instance = @ + 1,
               !.result = Instance(wc.next_instance + 1, wc.module_cache[key])]

\* WASMCache.get_instance: create and cache the module
create_module(wc, key) ==
    IF key \in DOMAIN wc.module_cache THEN create_instance(wc, key)
    ELSE IF Module(wc.binary_cache[key]).err # "none"
    THEN [wc EXCEPT !.err = Module(wc.binary_cache[key]).err]
    ELSE create_instance(
             [wc EXCEPT !.module_cache = DictSet(@, key, Module(wc.binary_cache[key]).v)],
             key)

\* WASMCache.get_instance: get or load the binary
load_binary(wc, key, wasm_file, t, outcome) ==
    IF key \in DOMAIN wc.binary_cache THEN create_module(wc, key)
    ELSE IF wasm_file = NoBinary THEN wc
    ELSE create_module(
             save_cache([wc EXCEPT !.binary_cache = DictSet(@, key, wasm_file)],
                        key, wasm_file, t, outcome),
             key)

get_instance_keyed(wc, key, wasm_file, t, outcome) ==
    IF key.err # "none" THEN [wc EXCEPT !.err = key.err]
    ELSE IF key.v \in DOMAIN wc.instance_cache /\ is_cache_valid(wc, key.v, t)
    THEN [wc EXCEPT !.result = wc.instance_cache[key.v]]
    ELSE load_binary(wc, key.v, wasm_file, t, outcome)

\* WASMCache.get_instance
get_instance(wc, files, wasm_files, source_path, t, outcome) ==
    get_instance_keyed(wc, get_cache_key(files, source_path), wasm_files[source_path],
                       t, outcome)

\* invalidate without the deletion from instance_cache
invalidate_keyed_keeps_instance(wc, key) ==
    IF key.err # "none" THEN [wc EXCEPT !.err = key.err]
    ELSE [wc EXCEPT
            !.binary_cache = DictDel(@, key.v),
            !.module_cache = DictDel(@, key.v),
            !.metadata = DictDel(@, key.v),
            !.cache_files = DictDel(@, key.v)]

\* WASMCache.invalidate
invalidate_keyed(wc, key) ==
    IF key.err # "none" THEN [wc EXCEPT !.err = key.err]
    ELSE [wc EXCEPT
            !.binary_cache = DictDel(@, key.v),
            !.module_cache = DictDel(@, key.v),
            !.instance_cache = DictDel(@, key.v),
            !.metadata = DictDel(@, key.v),
            !.cache_files = DictDel(@, key.v)]

invalidate(wc, files, source_path) ==
    invalidate_keyed(wc, get_cache_key(files, source_path))

\* WASMCache._clear_cache; when an unlink fails, the exception is caught
\* before any dictionary is cleared (the failure modelled is the one on the
\* first file)
ClearOutcomes == {"cleared", "unlink raises"}
clear_cache(wc, outcome) ==
    IF outcome = "unlink raises" THEN wc
    ELSE [wc EXCEPT !.cache_files = EmptyDict, !.metadata_file = NoFile,
                    !.binary_cache = EmptyDict, !.module_cache = EmptyDict,
                    !.instance_cache = EmptyDict, !.metadata = EmptyDict]

(***************************************************************************)
(* The cache as an object, constructed on an empty cache directory, with   *)
(* the environment that writes the source p and p.wasm and lets time pass. *)
(* The source q does not exist.                                            *)
(***************************************************************************)
MaxNow == 8
MaxCacheCalls == 3
AdvanceDays == {8}
NoCall == [op |-> "none", path |-> "None", key |-> NotRun]

CacheIdle ==
    /\ fs_source = [path \in Paths |->
                        IF path = "p" THEN [content |-> "c1", mtime |-> 0] ELSE NoFile]
    /\ fs_wasm = [path \in Paths |-> IF path = "p" THEN "B1" ELSE NoBinary]
    /\ cache_files = EmptyDict
    /\ metadata_file = NoFile
    /\ binary_cache = EmptyDict
    /\ module_cache = EmptyDict
    /\ instance_cache = EmptyDict
    /\ metadata = EmptyDict
    /\ now = 0
    /\ next_instance = 0
    /\ w_call = NoCall
    /\ w_calls = 0
    /\ w_result = NoInstance

CacheBecomes(wc) ==
    /\ binary_cache' = wc.binary_cache
    /\ module_cache' = wc.module_cache
    /\ instance_cache' = wc.instance_cache
    /\ metadata' = wc.metadata
    /\ cache_files' = wc.cache_files
    /\ metadata_file' = wc.metadata_file
    /\ next_instance' = wc.next_instance
    /\ w_result' = wc.result

GetInstance(source_path, outcome) ==
    /\ w_calls < MaxCacheCalls
    /\ CacheBecomes(get_instance(Cache, fs_source, fs_wasm, source_path, now, outcome))
    /\ w_call' = [op |-> "get_instance", path |-> source_path,
                  key |-> get_cache_key(fs_source, source_path)]
    /\ w_calls' = w_calls + 1
    /\ UNCHANGED <<fs_source, fs_wasm, now>>
    /\ UNCHANGED <<lebVars, genVars, lexVars, execVars, parseVars, compileVars, decodeVars>>

Invalidate(source_path) ==
    /\ w_calls < MaxCacheCalls
    /\ CacheBecomes(invalidate(Cache, fs_source, source_path))
    /\ w_call' = [op |-> "invalidate", path |-> source_path,
                  key |-> get_cache_key(fs_source, source_path)]
    /\ w_calls' = w_calls + 1
    /\ UNCHANGED <<fs_source, fs_wasm, now>>
    /\ UNCHANGED <<lebVars, genVars, lexVars, execVars, parseVars, compileVars, decodeVars>>

ClearCache(outcome) ==
    /\ w_calls < MaxCacheCalls
    /\ CacheBecomes(clear_cache(Cache, outcome))
    /\ w_call' = [op |-> "_clear_cache", path |-> "None", key |-> NotRun]
    /\ w_calls' = w_calls + 1
    /\ UNCHANGED <<fs_source, fs_wasm, now>>
    /\ UNCHANGED <<lebVars, genVars, lexVars, execVars, parseVars, compileVars, decodeVars>>

\* the source file p is written: new content or the same, mtime the time of
\* the write
WriteSource(content) ==
    /\ fs_source' = [fs_source EXCEPT !["p"] = [content |-> content, mtime |-> now]]
    /\ UNCHANGED <<fs_wasm, cache_files, metadata_file, binary_cache, module_cache,
                   instance_cache, metadata, now, next_instance, w_call, w_calls, w_result>>
    /\ UNCHANGED <<lebVars, genVars, lexVars, execVars, parseVars, compileVars, decodeVars>>

\* p.wasm is written by the compiler from the current source, or corrupted,
\* or removed
WriteWasm(wasm_binary) ==
    /\ wasm_binary \in {CompilerOutput(fs_source["p"].content), "bad", NoBinary}
    /\ fs_wasm' = [fs_wasm EXCEPT !["p"] = wasm_binary]
    /\ fs_wasm' # fs_wasm
    /\ UNCHANGED <<fs_source, cache_files, metadata_file, binary_cache, module_cache,
                   instance_cache, metadata, now, next_instance, w_call, w_calls, w_result>>
    /\ UNCHANGED <<lebVars, genVars, lexVars, execVars, parseVars, compileVars, decodeVars>>

\* time passes
Advance(days) ==
    /\ now + days <= MaxNow
    /\ now' = now + days
    /\ UNCHANGED <<fs_source, fs_wasm, cache_files, metadata_file, binary_cache,
                   module_cache, instance_cache, metadata, next_instance, w_call, w_calls, w_result>>
    /\ UNCHANGED <<lebVars, genVars, lexVars, execVars, parseVars, compileVars, decodeVars>>

CacheNext ==
    \/ w_calls < MaxCacheCalls
          /\ \E source_path \in Paths, outcome \in SaveOutcomes :
                 GetInstance(source_path, outcome)
    \/ w_calls < MaxCacheCalls /\ \E source_path \in Paths : Invalidate(source_path)
    \/ w_calls < MaxCacheCalls /\ \E outcome \in ClearOutcomes : ClearCache(outcome)
    \/ \E content \in Contents : WriteSource(content)
    \/ \E wasm_binary \in Binaries \cup {NoBinary} : WriteWasm(wasm_binary)
    \/ \E days \in AdvanceDays : Advance(days)

(***************************************************************************)
(* Inputs of the LEB128 checks: a window around zero and the values at     *)
(* which the encoded length changes, up to the 32-bit limits.              *)
(***************************************************************************)
MaxSmall == 70

\* TLC's integers are 32-bit, so the largest input is 2^31 - 1 (a five-byte
\* encoding, like every value from 2^28 up), and negative inputs stop at
\* -2^27, the last whose unsigned reading of the encoding fits in 32 bits.
LebEdges ==
    { 127, 128, 255, 256, 16383, 16384, 2097151, 2097152, 268435455, 268435456,
      1073741823, 1073741824, 2147483646, 2147483647,
      8191, 8192, 1048575, 1048576, 134217727, 134217728,
      -128, -129, -8192, -8193, -1048576, -1048577, -134217728 }

LebInputs == (-MaxSmall .. MaxSmall) \cup LebEdges

LebIdle ==
    /\ leb_value = 0
    /\ leb_op = "none"
    /\ leb_bytes = <<>>
    /\ leb_decoded = NoDecode

LebInit ==
    /\ leb_value \in LebInputs
    /\ leb_op = "none"
    /\ leb_bytes = <<>>
    /\ leb_decoded = NoDecode

EncodeUnsigned ==
    /\ leb_op = "none"
    /\ leb_value >= 0
    /\ leb_bytes' = encode_unsigned_leb128(leb_value)
    /\ leb_op' = "unsigned"
    /\ UNCHANGED <<leb_value, leb_decoded>>
    /\ UNCHANGED <<genVars, lexVars, execVars, parseVars, compileVars, decodeVars, cacheVars>>

EncodeSigned ==
    /\ leb_op = "none"
    /\ leb_bytes' = encode_signed_leb128(leb_value)
    /\ leb_op' = "signed"
    /\ UNCHANGED <<leb_value, leb_decoded>>
    /\ UNCHANGED <<genVars, lexVars, execVars, parseVars, compileVars, decodeVars, cacheVars>>

DecodeLeb ==
    /\ leb_op # "none"
    /\ leb_decoded = NoDecode
    /\ leb_decoded' = decode_leb128(leb_bytes)
    /\ UNCHANGED <<leb_value, leb_op, leb_bytes>>
    /\ UNCHANGED <<genVars, lexVars, execVars, parseVars, compileVars, decodeVars, cacheVars>>

LebNext == EncodeUnsigned \/ EncodeSigned \/ DecodeLeb

(***************************************************************************)
(* Specifications: one per component, the other components at rest.       *)
(***************************************************************************)
SpecLebInit == LebInit /\ GenInit /\ LexIdle /\ ExecIdle /\ ParseIdle /\ CompileIdle /\ DecodeIdle /\ CacheIdle
SpecLeb == SpecLebInit /\ [][LebNext]_vars

SpecGenInit == GenInit /\ LebIdle /\ LexIdle /\ ExecIdle /\ ParseIdle /\ CompileIdle /\ DecodeIdle /\ CacheIdle
SpecGen == SpecGenInit /\ [][GenNext]_vars

SpecLexInit == LexIdle /\ GenInit /\ LebIdle /\ ExecIdle /\ ParseIdle /\ CompileIdle /\ DecodeIdle /\ CacheIdle
SpecLex == SpecLexInit /\ [][LexNext]_vars

SpecExecInit == ExecIdle /\ GenInit /\ LebIdle /\ LexIdle /\ ParseIdle /\ CompileIdle /\ DecodeIdle /\ CacheIdle
SpecExec == SpecExecInit /\ [][ExecNext]_vars

SpecParseInit == ParseIdle /\ GenInit /\ LebIdle /\ LexIdle /\ ExecIdle /\ CompileIdle /\ DecodeIdle /\ CacheIdle
SpecParse == SpecParseInit /\ [][ParseNext]_vars

SpecCompileInit == CompileIdle /\ DecodeIdle /\ ParseIdle /\ GenInit /\ LebIdle /\ LexIdle /\ ExecIdle /\ CacheIdle
SpecCompile == SpecCompileInit /\ [][CompileNext]_vars

SpecDecodeInit == DecodeIdle /\ CompileIdle /\ ParseIdle /\ GenInit /\ LebIdle /\ LexIdle /\ ExecIdle /\ CacheIdle
SpecDecode == SpecDecodeInit /\ [][DecodeNext]_vars

SpecCacheInit == CacheIdle /\ DecodeIdle /\ CompileIdle /\ ParseIdle /\ GenInit /\ LebIdle /\ LexIdle /\ ExecIdle
SpecCache == SpecCacheInit /\ [][CacheNext]_vars

(***************************************************************************)
(* Claims about the generator (checked under SpecGen).                     *)
(***************************************************************************)
\* Reads framed sections off a byte sequence: id byte, unsigned LEB128
\* length, payload.  ok is FALSE when a frame is cut short.
RECURSIVE ReadFrames(_)
ReadFrames(bytes) ==
    IF bytes = <<>> THEN [ok |-> TRUE, ids |-> <<>>]
    ELSE LET size == decode_leb128(Tail(bytes))
             used == 1 + size.bytes_read + size.result
             rest == ReadFrames(SubSeq(bytes, used + 1, Len(bytes)))
         IN  IF size.err # "none" \/ used > Len(bytes)
             THEN [ok |-> FALSE, ids |-> <<>>]
             ELSE [ok |-> rest.ok, ids |-> <<Head(bytes)>> \o rest.ids]

\* C1: whenever generate returns bytes, they are the preamble
\* 00 61 73 6D 01 00 00 00 followed by exactly five framed sections with ids
\* 1, 3, 5, 7, 10 in that order and nothing else.
C1_ModuleFraming ==
    (gen_call = "generate" /\ gen_result.err = "none") =>
        /\ Len(gen_result.v) >= 8
        /\ SubSeq(gen_result.v, 1, 8) = <<0, 97, 115, 109, 1, 0, 0, 0>>
        /\ ReadFrames(SubSeq(gen_result.v, 9, Len(gen_result.v))).ok
        /\ ReadFrames(SubSeq(gen_result.v, 9, Len(gen_result.v))).ids = <<1, 3, 5, 7, 10>>

\* C1 witness: generate has returned a module
C1_Witness ==
    /\ gen_call = "generate"
    /\ gen_result.err = "none"
    /\ Len(gen_result.v) > 8

\* the export section the claim describes: the count, then per function the
\* length-prefixed UTF-8 name, kind 0x00 and the function's position
ExpectedExports(fns) ==
    <<Len(fns)>> \o Concat([i \in 1..Len(fns) |->
        <<Len(fns[i].name)>> \o encode_utf8(fns[i].name) \o <<0, i - 1>>])

\* C2: for a program with functions F_0..F_{k-1}, generate produces an
\* export section with exactly k entries, entry i being F_i's name, kind
\* 0x00 and index i (generate_export_section called on its own likewise).
C2_ExportEntries ==
    /\ gen_call = "generate" => gen_sections.export = Ok(ExpectedExports(functions))
    /\ gen_call = "generate_export_section" =>
           gen_result = Ok(ExpectedExports(functions))

\* signatures as the claim counts them
SigOf(func) == <<ParamTypeStrs(func), func.return_type>>
ScalarTypes == {T_i32, T_i64, T_f32, T_f64}
WellTyped(fns) ==
    \A i \in 1..Len(fns) :
        /\ fns[i].return_type \in ScalarTypes
        /\ \A k \in 1..Len(fns[i].params) : fns[i].params[k].type \in ScalarTypes
DistinctSigs(fns) == { SigOf(fns[i]) : i \in 1..Len(fns) }

\* C3: for K functions with D distinct signatures the type section has
\* exactly D entries (its count is D), and the function section lists K
\* type indices, equal for two functions exactly when their signatures are.
C3_TypeDedup ==
    (gen_call = "generate" /\ WellTyped(functions)) =>
        /\ gen_sections.type.err = "none"
        /\ Head(gen_sections.type.v) = Cardinality(DistinctSigs(functions))
        /\ gen_sections.function.err = "none"
        /\ Len(gen_sections.function.v) = 1 + Len(functions)
        /\ Head(gen_sections.function.v) = Len(functions)
        /\ \A i, j \in 1..Len(functions) :
               (gen_sections.function.v[i + 1] = gen_sections.function.v[j + 1])
                   <=> (SigOf(functions[i]) = SigOf(functions[j]))

\* the Let statements of a statement list in source order, nested blocks
\* included
RECURSIVE LetsOf(_)
LetsOf(statements) ==
    IF statements = <<>> THEN <<>>
    ELSE LET st == Head(statements)
             here == CASE st.kind = "LetStatement" -> <<st>>
                       [] st.kind = "WhileStatement" -> LetsOf(st.body.statements)
                       [] st.kind = "IfStatement" ->
                              LetsOf(st.then_block.statements)
                              \o (IF st.else_block.kind = "Block"
                                  THEN LetsOf(st.else_block.statements) ELSE <<>>)
                       [] OTHER -> <<>>
         IN  here \o LetsOf(Tail(statements))

\* C4: after local collection for a function with p parameters and L Lets,
\* local_vars gives parameter i the index i (from 0) and Let j the index
\* p + j, the indices in use are exactly 0..p+L-1, and L locals are declared.
C4_LocalLayout ==
    (gen_call = "generate_code_section" /\ gen_fi >= 1) =>
        LET func == functions[gen_fi]
            p == Len(func.params)
            lets == LetsOf(func.body.statements)
        IN  /\ \A i \in 1..p :
                   /\ func.params[i].name \in DOMAIN local_vars
                   /\ local_vars[func.params[i].name] = i - 1
            /\ \A j \in 1..Len(lets) :
                   /\ lets[j].name \in DOMAIN local_vars
                   /\ local_vars[lets[j].name] = p + j - 1
            /\ { local_vars[n] : n \in DOMAIN local_vars } = 0 .. (p + Len(lets) - 1)
            /\ locals_count = Len(lets)

BinaryOpTable ==
    { <<"+">>, <<"-">>, <<"*">>, <<"/">>, <<"<">>, <<">">>, <<"=", "=">> }
TableOpcode(op) ==
    CASE op = <<"+">> -> 106 [] op = <<"-">> -> 107 [] op = <<"*">> -> 108
      [] op = <<"/">> -> 109 [] op = <<"<">> -> 72 [] op = <<">">> -> 74
      [] op = <<"=", "=">> -> 70

\* C8: for a BinaryOp with an operator of the table, generate_expression
\* returns the left operand's code, the right operand's code and the
\* operator's opcode; for any other operator it raises.
C8_BinaryOpCode ==
    (gen_call = "generate_expression" /\ gen_arg.kind = "BinaryOp") =>
        IF gen_arg.operator \in BinaryOpTable
        THEN gen_result = Then(generate_expression(gen_arg.left, local_vars),
                          Then(generate_expression(gen_arg.right, local_vars),
                               Ok(<<TableOpcode(gen_arg.operator)>>)))
        ELSE gen_result.err # "none"

C6_SignedRoundTrip ==
    (leb_op = "signed" /\ leb_decoded # NoDecode) =>
        /\ leb_decoded.err = "none"
        /\ leb_decoded.result = leb_value

(***************************************************************************)
(* Claims about emitted While code (checked under SpecExec).               *)
(***************************************************************************)
\* C7: in the code emitted for While(cond, body) the br_if that follows the
\* condition lets control into the body when the condition is nonzero and
\* out of the loop when it is zero, so the summing loop called with n
\* returns 1 + 2 + ... + n.
C7_WhileRunsWhileNonzero ==
    /\ x_last.op = "br_if" => (x_last.cond # 0 <=> ~x_last.taken)
    /\ (x_status = "returned" /\ x_func = SumDown) =>
           x_result = (x_arg * (x_arg + 1)) \div 2

(***************************************************************************)
(* Claims about the lexer (checked under SpecLex).                         *)
(***************************************************************************)
\* C9: a token list tokenize returns ends with an EOF token, has no EOF
\* token before its end, and is exactly one EOF token for the empty source.
C9_EofTerminated ==
    lex_status = "returned" =>
        /\ Len(tokens) >= 1
        /\ tokens[Len(tokens)].type = "EOF"
        /\ \A i \in 1..(Len(tokens) - 1) : tokens[i].type # "EOF"
        /\ source = <<>> => Len(tokens) = 1

\* C9 witness: tokenize returned other tokens and the EOF
C9_Witness ==
    /\ lex_status = "returned"
    /\ Len(tokens) >= 3
    /\ tokens[Len(tokens)].type = "EOF"

\* the source with each comment removed: from // up to but not including
\* the next newline or the end; a // inside a string literal is no comment
RECURSIVE StripComments(_, _)
StripComments(src, mode) ==
    IF src = <<>> THEN <<>>
    ELSE CASE mode = "comment" ->
                IF Head(src) = "\n" THEN <<"\n">> \o StripComments(Tail(src), "code")
                ELSE StripComments(Tail(src), "comment")
           [] mode = "string" ->
                IF Head(src) = "\\" /\ Len(src) >= 2
                THEN <<src[1], src[2]>> \o StripComments(Tail(Tail(src)), "string")
                ELSE <<Head(src)>> \o
                     StripComments(Tail(src), IF Head(src) = "\"" THEN "code" ELSE "string")
           [] OTHER ->
                IF Len(src) >= 2 /\ src[1] = "/" /\ src[2] = "/"
                THEN StripComments(Tail(Tail(src)), "comment")
                ELSE <<Head(src)>> \o
                     StripComments(Tail(src), IF Head(src) = "\"" THEN "string" ELSE "code")

SameKindsAndValues(ts, us) ==
    /\ Len(ts) = Len(us)
    /\ \A i \in 1..Len(ts) : ts[i].type = us[i].type /\ ts[i].value = us[i].value

\* what tokenize did compared with the outcome for the comment-free source
IgnoresComments(stripped) ==
    stripped.status = "returned" =>
        /\ lex_status = "returned"
        /\ SameKindsAndValues(tokens, stripped.tokens)

\* C10: tokenize treats a source like the same source with each // comment
\* removed: where the comment-free source tokenizes, the source tokenizes
\* too, to the same kinds and values, and no error comes from a comment.
C10_CommentsIgnored ==
    lex_status \in {"returned", "raised"} =>
        IgnoresComments(tokenize(StripComments(source, "code")))

\* the characters the claim counts as matching no lexer rule
ClaimedInvalidChars == {"%", "@"}

\* C11: when the character at the head of tokenize's loop matches no lexer
\* rule (@ is claimed to be one), tokenize raises SyntaxError "Invalid
\* character" carrying that character with its line and column, and returns
\* no token list.
C11_InvalidCharacterRaises ==
    [][(lex_status = "running" /\ current_char \in ClaimedInvalidChars) =>
          /\ lex_status' = "raised"
          /\ lex_error'.type = "SyntaxError"
          /\ lex_error'.msg = "Invalid character"
          /\ lex_error'.char = current_char
          /\ lex_error'.line = line
          /\ lex_error'.column = column]_vars

\* 1-based line and column of the character at 0-based offset i of src
LineAt(src, i) == 1 + Cardinality({k \in 1..i : src[k] = "\n"})
ColumnAt(src, i) ==
    LET newlines == {k \in 1..i : src[k] = "\n"}
    IN  IF newlines = {} THEN i + 1
        ELSE i + 1 - (CHOOSE k \in newlines : \A j \in newlines : j <= k)

\* C12: each non-EOF token tokenize appends carries the 1-based line and
\* column of its first character, the character the loop iteration that
\* made the token started at.
C12_TokenPositions ==
    [][(Len(tokens') = Len(tokens) + 1 /\ tokens'[Len(tokens')].type # "EOF") =>
          /\ tokens'[Len(tokens')].line = LineAt(source, pos)
          /\ tokens'[Len(tokens')].column = ColumnAt(source, pos)]_vars

(***************************************************************************)
(* Claims about the parser (checked under SpecParse).                      *)
(***************************************************************************)
ParseDone == p_status \in {"returned", "raised"}

\* C13: inside a block, IDENT assignop expression ';' with assignop one of
\* = += -= *= /= is parsed into AssignStatement(name, operator, value) with
\* the identifier's text, the operator's text and the parsed expression,
\* and the parser consumes the tokens through the semicolon.
AssignedValue(ops) ==
    IF ops = <<>> THEN Identifier(N_a)
    ELSE BinaryOp(ops[1], Identifier(N_a), FloatLiteral(2))
C13_AssignmentParsed ==
    \A op \in AssignOperators, ops \in AssignValues :
        (p_tokens = TokensOf(AssignProgram(op, ops)) /\ ParseDone) =>
            /\ p_status = "returned"
            /\ p_program = Program(<<Function(N_f, <<>>, W_i32,
                               Block(<<AssignStatement(N_x, op, AssignedValue(ops))>>))>>)

\* C14: for an expression of number/identifier operands and binary
\* operators the parser builds the BinaryOp tree that reads the operands and
\* operators in their order, in which * and / bind tighter than + and -,
\* which bind tighter than < > == <= >=, and operators of equal precedence
\* associate to the left.
Level(op) ==
    CASE op \in {<<"*">>, <<"/">>} -> 3
      [] op \in {<<"+">>, <<"-">>} -> 2
      [] OTHER -> 1
OperatorItem(op) == [kind |-> "operator", operator |-> op]
ItemOf(tok) ==
    CASE tok.type = "IDENTIFIER" -> Identifier(tok.value)
      [] tok.type = "INTEGER" -> FloatLiteral(tok.value)
      [] OTHER -> OperatorItem(tok.value)
RECURSIVE InOrder(_)
InOrder(node) ==
    IF node.kind = "BinaryOp"
    THEN InOrder(node.left) \o <<OperatorItem(node.operator)>> \o InOrder(node.right)
    ELSE <<node>>
RECURSIVE BindsAsClaimed(_)
BindsAsClaimed(node) ==
    node.kind = "BinaryOp" =>
        /\ node.left.kind = "BinaryOp" => Level(node.left.operator) >= Level(node.operator)
        /\ node.right.kind = "BinaryOp" => Level(node.right.operator) > Level(node.operator)
        /\ BindsAsClaimed(node.left)
        /\ BindsAsClaimed(node.right)
\* func f() -> i32 { return <expression> ; }
ReturnInputs == { TokensOf(words) : words \in ReturnPrograms }
IsReturnProgram == p_tokens \in ReturnInputs
ReturnedTokens == SubSeq(p_tokens, 9, Len(p_tokens) - 3)
ReturnedExpression == p_program.functions[1].body.statements[1].expression
C14_PrecedenceAndAssociativity ==
    (IsReturnProgram /\ ParseDone) =>
        /\ p_status = "returned"
        /\ InOrder(ReturnedExpression) = [i \in 1..Len(ReturnedTokens) |-> ItemOf(ReturnedTokens[i])]
        /\ BindsAsClaimed(ReturnedExpression)
\* a - 2 - b * 4 is parsed as (a - 2) - (b * 4)
C14_Witness ==
    /\ p_status = "returned"
    /\ p_tokens = TokensOf(ReturnProgram(<<<<"-">>, <<"-">>, <<"*">>>>))
    /\ ReturnedExpression =
           BinaryOp(<<"-">>, BinaryOp(<<"-">>, Identifier(N_a), FloatLiteral(2)),
                             BinaryOp(<<"*">>, Identifier(N_b), FloatLiteral(4)))

\* C15: parse raises a SyntaxError at the first token that violates the
\* grammar and returns no Program: for a function without '-> type', a
\* parameter without ': type', a statement without its ';' and an if whose
\* condition is not enclosed in parentheses, the error is raised at the
\* token that stands where the missing words were.
FirstViolation(d) == (CHOOSE i \in d.words : \A j \in d.words : i <= j) - 1
C15_RaisesAtFirstViolation ==
    \A d \in Defects :
        (p_tokens = TokensOf(DefectProgram(d)) /\ ParseDone) =>
            /\ p_status = "raised"
            /\ p_error.type = "SyntaxError"
            /\ p_current = FirstViolation(d)
            /\ p_program = NoBlock

(***************************************************************************)
(* Further claims about the generator (checked under SpecGen).             *)
(***************************************************************************)
\* C16: generating a function whose body references an identifier that is
\* neither one of its parameters nor a Let-declared local fails with a
\* name-resolution error (NameError, KeyError or ValueError) and returns no
\* bytes.
NameResolutionErrors == {"NameError", "KeyError", "ValueError"}
DeclaredNames(func) ==
    {func.params[i].name : i \in 1..Len(func.params)}
    \cup {LetsOf(func.body.statements)[j].name : j \in 1..Len(LetsOf(func.body.statements))}
ReturnsUnknown(func) ==
    \E i \in 1..Len(func.body.statements) :
        LET st == func.body.statements[i]
        IN  /\ st.kind = "ReturnStatement"
            /\ st.expression.kind = "Identifier"
            /\ st.expression.name \notin DeclaredNames(func)
C16_UnknownIdentifierFails ==
    (gen_call = "generate" /\ \E i \in 1..Len(functions) : ReturnsUnknown(functions[i])) =>
        /\ gen_result.err \in NameResolutionErrors
        /\ gen_result.v = <<>>

\* C17: the memory section declares exactly one memory with limits flag
\* 0x01, minimum 1 page and maximum 1 page (payload 01 01 01 01), for every
\* program.
C17_MemoryLimits ==
    (gen_call = "generate" /\ gen_sections.memory # NotRun) =>
        gen_sections.memory = Ok(<<1, 1, 1, 1>>)

(***************************************************************************)
(* Claim about the compile entry point (checked under SpecCompile).        *)
(***************************************************************************)
\* C18: for every source S, compile(S) returns the bytes
\* generate(Parser(tokenize(S)).parse()) returns, and it raises whenever the
\* lexer, the parser or the generator fails on S.
C18_CompileComposesStages ==
    (c_status \in {"returned", "raised"}) =>
        IF compile_source(c_source).err = "none"
        THEN c_result = compile_source(c_source)
        ELSE c_result.err # "none"

(***************************************************************************)
(* Claim about the decoder (checked under SpecDecode).                     *)
(***************************************************************************)
\* C19: applied to the bytes of an emitted module, decode_sections skips the
\* 8-byte preamble and returns one section per emitted section, in order,
\* with the emitted ids 1, 3, 5, 7, 10 and sizes.
RECURSIVE FrameSizes(_)
FrameSizes(bytes) ==
    IF bytes = <<>> THEN <<>>
    ELSE LET size == decode_leb128(Tail(bytes))
         IN  <<size.result>>
             \o FrameSizes(SubSeq(bytes, 2 + size.bytes_read + size.result, Len(bytes)))
C19_DecodesEmittedSections ==
    (d_status = "returned" /\ d_calls = 1) =>
        /\ [i \in 1..Len(d_sections) |-> d_sections[i].id] = <<1, 3, 5, 7, 10>>
        /\ [i \in 1..Len(d_sections) |-> d_sections[i].size]
               = FrameSizes(SubSeq(d_data, 9, Len(d_data)))

(***************************************************************************)
(* Claim about the cache (checked under SpecCache).                        *)
(***************************************************************************)
\* C20: if get_instance(p) returned an instance, and neither p's content
\* nor its mtime has changed and the entry has not expired, the next
\* get_instance(p) returns that same instance and leaves binary_cache,
\* module_cache, instance_cache, metadata and the cache files unchanged.
NotExpired(key) == key \in DOMAIN metadata => now < metadata[key].expires
C20_LookupIdempotent ==
    [][(/\ w_call.op = "get_instance"
        /\ w_result # NoInstance
        /\ w_calls' = w_calls + 1
        /\ w_call'.op = "get_instance"
        /\ w_call'.path = w_call.path
        /\ w_call'.key = w_call.key
        /\ NotExpired(w_call.key.v)) =>
           /\ w_result' = w_result
           /\ UNCHANGED <<binary_cache, module_cache, instance_cache, metadata,
                          cache_files, metadata_file>>]_vars

\* C21: when the content or the mtime of p changes between two
\* get_instance(p) calls that both read p, the second call returns an
\* instance built from the binary the compiler produces for the new content,
\* and no entry for the earlier version remains in binary_cache,
\* module_cache, instance_cache, metadata or the cache directory.
EntryKeys(bc, mc, ic, md, files) ==
    DOMAIN bc \cup DOMAIN mc \cup DOMAIN ic \cup DOMAIN md \cup DOMAIN files
C21_ChangedSourceInvalidates ==
    [][(/\ w_call.op = "get_instance"
        /\ w_result # NoInstance
        /\ w_calls' = w_calls + 1
        /\ w_call'.op = "get_instance"
        /\ w_call'.path = w_call.path
        /\ w_call'.key.err = "none"
        /\ w_call'.key # w_call.key) =>
           /\ w_result' # NoInstance
           /\ w_result'.binary = CompilerOutput(fs_source[w_call.path].content)
           /\ w_call.key.v \notin EntryKeys(binary_cache', module_cache', instance_cache',
                                            metadata', cache_files')]_vars

\* C22: for a readable source whose key has no unexpired entry (no metadata
\* for the key, or its expiry has passed), get_instance returns a newly
\* built instance of the binary the compiler produces for the source; it
\* returns neither None nor a cached instance.
C22_MissingOrExpiredRecomputed ==
    [][(/\ w_calls' = w_calls + 1
        /\ w_call'.op = "get_instance"
        /\ w_call'.key.err = "none"
        /\ ~(w_call'.key.v \in DOMAIN metadata /\ now < metadata[w_call'.key.v].expires)) =>
           /\ w_result' # NoInstance
           /\ w_result'.id = next_instance + 1
           /\ w_result'.binary = CompilerOutput(fs_source[w_call'.path].content)]_vars

\* C28: in every state reached by get_instance, invalidate and _clear_cache
\* calls, those that fail part-way included, every key of instance_cache is
\* a key of module_cache and every key of module_cache is a key of
\* binary_cache.
C28_CacheKeysNested ==
    /\ DOMAIN instance_cache \subseteq DOMAIN module_cache
    /\ DOMAIN module_cache \subseteq DOMAIN binary_cache
\* a get_instance that returned None after storing the binary, in a cache
\* that holds an instance for another key
C28_Witness ==
    /\ w_call.op = "get_instance"
    /\ w_result = NoInstance
    /\ w_call.key.err = "none"
    /\ w_call.key.v \in DOMAIN binary_cache
    /\ w_call.key.v \notin DOMAIN module_cache
    /\ instance_cache # EmptyDict

\* C29: a second decode_sections call on the same WASMDecoder with the same
\* data returns the list of sections the first call returned.
C29_DecodeRepeatable ==
    (/\ d_status = "returned"
     /\ d_calls = 2
     /\ d_previous.status = "returned"
     /\ d_previous.data = d_data) =>
        d_sections = d_previous.sections

(***************************************************************************)
(* Further claims about the generator (checked under SpecGen).             *)
(***************************************************************************)
\* C23: generate(P) on an instance, whatever was called on it before,
\* returns what generate(P) returns on a new instance, and leaves the
\* function-type table, the local-name map and the next-local counter as
\* it leaves them on a new instance.
FreshGenerate == generate([functions |-> functions], EmptyDict, EmptyDict, 0, 0)
C23_NoStateLeak ==
    (gen_call = "generate") =>
        /\ gen_result = FreshGenerate.res
        /\ function_types = FreshGenerate.function_types
        /\ local_vars = FreshGenerate.local_vars
        /\ next_local_index = FreshGenerate.next_local_index

\* C24: for every function, generate_function_body returns body_len followed
\* by the body, where the body is the locals vector, the instructions and a
\* final 0x0B, and body_len is the unsigned LEB128 encoding of the number of
\* bytes of that body (02 00 0B for an empty body without locals).
ParamsBound(func) == bind_params(func.params, EmptyDict, 0)
LocalsCollected(func) ==
    collect_locals(func.body.statements, ParamsBound(func).local_vars,
                   ParamsBound(func).next_local_index, 0)
BodyOf(func) ==
    Then(encode_vector([k \in 1..LocalsCollected(func).locals_count |->
                            PyBytes(<<1, I32_TYPE>>)]),
    Then(generate_statements(func.body.statements, LocalsCollected(func).local_vars),
         Ok(<<END>>)))
C24_BodyLengthPrefix ==
    (gen_call = "generate_code_section") =>
        \A i \in 1..Len(functions) :
            BodyOf(functions[i]).err = "none" =>
                generate_function_body(functions[i],
                                       ParamsBound(functions[i]).local_vars,
                                       ParamsBound(functions[i]).next_local_index).res
                    = Ok(encode_unsigned_leb128(Len(BodyOf(functions[i]).v))
                         \o BodyOf(functions[i]).v)

(***************************************************************************)
(* Claim about emitted Free code (checked under SpecExec).                 *)
(***************************************************************************)
\* C25: when the code emitted for Free(p) has been executed, the operand
\* stack is as it was before the statement (empty, the statement being the
\* first of the body) and every local holds the value it held before.
\* The instructions the machine executes write no memory.
FreeCode(func) ==
    generate_statement(func.body.statements[1],
                       bind_params(func.params, EmptyDict, 0).local_vars).v
C25_FreeLeavesStack ==
    (/\ x_status = "running"
     /\ x_func \in FreeFunctions
     /\ x_pc = 1 + Len(FreeCode(x_func))) =>
        /\ x_stack = <<>>
        /\ x_locals = [k \in 1..Len(x_locals) |-> IF k = 1 THEN x_arg ELSE 0]

\* C26: generating the bodies (generate_code_section) fails with a
\* name-resolution error when a statement of a function body references a
\* Let-declared name that is no parameter and whose Let comes later in the
\* body.
RECURSIVE ExprNames(_)
ExprNames(expr) ==
    CASE expr.kind = "Identifier" -> {expr.name}
      [] expr.kind = "BinaryOp" -> ExprNames(expr.left) \cup ExprNames(expr.right)
      [] expr.kind = "AddressOfExpression" -> ExprNames(expr.expression)
      [] expr.kind = "DereferenceExpression" -> ExprNames(expr.pointer)
      [] OTHER -> {}
StmtNames(stmt) ==
    CASE stmt.kind = "ReturnStatement" -> ExprNames(stmt.expression)
      [] stmt.kind = "LetStatement" -> ExprNames(stmt.initializer)
      [] stmt.kind = "AssignStatement" -> {stmt.name} \cup ExprNames(stmt.value)
      [] stmt.kind = "FreeStatement" -> ExprNames(stmt.pointer)
      [] OTHER -> {}
ReferencesLaterLet(func) ==
    LET stmts == func.body.statements
    IN  \E i \in 1..Len(stmts), j \in 1..Len(stmts) :
            /\ i < j
            /\ stmts[j].kind = "LetStatement"
            /\ stmts[j].name \in StmtNames(stmts[i])
            /\ \A k \in 1..Len(func.params) : func.params[k].name # stmts[j].name
            /\ \A k \in 1..(i - 1) :
                   ~(stmts[k].kind = "LetStatement" /\ stmts[k].name = stmts[j].name)
C26_LetBoundInLexicalOrder ==
    (/\ gen_call = "generate_code_section"
     /\ \E i \in 1..Len(functions) : ReferencesLaterLet(functions[i])) =>
        /\ gen_result.err \in NameResolutionErrors
        /\ gen_result.v = <<>>

(***************************************************************************)
(* Further claims about the parser (checked under SpecParse).              *)
(***************************************************************************)
\* C27: the parser accepts ptr<i32> as a parameter type, a return type, a
\* Let type and the type argument of alloc and sizeof, and records the type
\* ptr<i32> in the node; func f(a: ptr<i32>) -> i32 { return 0; } parses.
T_ptr_i32 == <<"p", "t", "r", "<", "i", "3", "2", ">">>
PtrParsed(position) ==
    CASE position = "parameter" ->
            Function(N_f, <<Parameter(N_a, T_ptr_i32)>>, W_i32,
                     Block(<<ReturnStatement(FloatLiteral(0))>>))
      [] position = "return" ->
            Function(N_f, <<>>, T_ptr_i32, Block(<<ReturnStatement(FloatLiteral(0))>>))
      [] position = "let" ->
            Function(N_f, <<>>, W_i32,
                     Block(<<LetStatement(N_x, T_ptr_i32, FloatLiteral(0))>>))
      [] position = "alloc" ->
            Function(N_f, <<>>, W_i32,
                     Block(<<ReturnStatement(AllocExpression(T_ptr_i32, FloatLiteral(1)))>>))
      [] position = "sizeof" ->
            Function(N_f, <<>>, W_i32,
                     Block(<<ReturnStatement(SizeofExpression(T_ptr_i32))>>))
C27_PointerTypeAccepted ==
    \A position \in TypePositions :
        (p_tokens = TokensOf(PtrProgram(position)) /\ ParseDone) =>
            /\ p_status = "returned"
            /\ p_program = Program(<<PtrParsed(position)>>)

\* C30: for every token list that ends with EOF, parse terminates by
\* returning a Program or raising SyntaxError; the cursor never decreases
\* and stays within 0..len(tokens)-1; every iteration of the loops of parse,
\* block and parameters and of the binary-operator loops consumes at least
\* one token or raises.  Termination is by the variant
\* len(tokens) - 1 - current: it is never negative, and a step of the running
\* call either ends the call or decreases it.
At(c) == [current |-> c, nodes |-> <<>>, error |-> NoParseError]
Consumes(r, c) == Failed(r) \/ r.current > c
BinaryOperatorTypes ==
    {"LESS", "GREATER", "EQUALS", "LESS_EQUAL", "GREATER_EQUAL",
     "PLUS", "MINUS", "MULTIPLY", "DIVIDE"}
\* one iteration of each loop, begun at any position of the token list
IterationsConsume(toks) ==
    \A c \in 0..(Len(toks) - 1) :
        /\ ~is_at_end(toks, At(c)) => Consumes(function(toks, At(c)), c)
        /\ (~check(toks, At(c), "RBRACE") /\ ~is_at_end(toks, At(c))) =>
               Consumes(statement(toks, At(c)), c)
        /\ Consumes(parameter_node(consume_value(toks,
               consume(toks, consume_value(toks, At(c), "IDENTIFIER"), "COLON"),
               "TYPE")), c)
        /\ \A type \in BinaryOperatorTypes :
               check(toks, At(c), type) => Consumes(parser_advance(toks, At(c)), c)
C30_ParseTerminates ==
    /\ [](p_status # "new" =>
            /\ p_current \in 0..(Len(p_tokens) - 1)
            /\ IterationsConsume(p_tokens)
            /\ p_status = "raised" => p_error.type = "SyntaxError"
            /\ p_status = "returned" => p_program = Program(p_functions))
    /\ [][p_status # "new" =>
            /\ p_current' >= p_current
            /\ p_status = "running" =>
                   \/ p_status' \in {"returned", "raised"}
                   \/ /\ p_status' = "running"
                      /\ Len(p_tokens) - 1 - p_current' < Len(p_tokens) - 1 - p_current
            /\ ParseDone => UNCHANGED parseVars]_vars
\* parse returned after two iterations of its loop, the cursor on the EOF
C30_Witness ==
    /\ p_status = "returned"
    /\ Len(p_functions) = 2
    /\ p_current = Len(p_tokens) - 1

====
